---- MODULE Spec2Model ----
(***************************************************************************)
(* A model of enhanced-ai-sdk's generateObjectCompat: the Zod -> BAML      *)
(* translator and renderer, the JSON hint merge, the content-addressed     *)
(* workspace with the external compiler and the artifact loader, and the   *)
(* retrying orchestrator.                                                  *)
(*                                                                         *)
(* JavaScript strings are sequences of one-character strings, so that the  *)
(* regular expressions and the string tests of the source are computed.    *)
(***************************************************************************)
EXTENDS Integers, Sequences, FiniteSets, TLC

VARIABLES
  rootSchema,   \* translation: the schema handed to buildBamlFromZod
  ctx,          \* translation: the context as the last translation left it
  built,        \* translation: the results of the successive buildBamlFromZod calls
  walk,         \* translation: the calls of toBamlType in progress, one frame per call
  hint,         \* hint merge: the hint handed to mergeJsonHintIntoMessages
  messages,     \* hint merge: the messages handed to it
  merged,       \* hint merge: what it returned
  opts,         \* request: the prompt and the messages of the caller's options
  request,      \* request: what is handed to generateText
  proc,         \* execFile: the child's output streams and what has been forwarded
  env,          \* pipeline: how '@boundaryml/baml' resolves on this machine
  fs,           \* pipeline: the cache directory, one workspace per cache key
  inv           \* pipeline: the generateObjectCompat invocations

tvars == <<rootSchema, ctx, built, walk>>
mvars == <<hint, messages, merged, opts, request, proc>>
pvars == <<env, fs, inv>>
vars == <<rootSchema, ctx, built, walk, hint, messages, merged, opts, request, proc, env, fs, inv>>

(***************************************************************************)
(* Characters and strings                                                  *)
(***************************************************************************)
LowerChars == <<"a","b","c","d","e","f","g","h","i","j","k","l","m",
                "n","o","p","q","r","s","t","u","v","w","x","y","z">>
UpperChars == <<"A","B","C","D","E","F","G","H","I","J","K","L","M",
                "N","O","P","Q","R","S","T","U","V","W","X","Y","Z">>
DigitChars == <<"0","1","2","3","4","5","6","7","8","9">>

Range(f) == {f[i] : i \in DOMAIN f}

\* F applied to the value of v, which is computed once
With(v, F(_)) == CHOOSE y \in {F(a) : a \in {v}} : TRUE

IsLower(c) == c \in Range(LowerChars)
IsUpper(c) == c \in Range(UpperChars)
IsDigit(c) == c \in Range(DigitChars)
IsAlnum(c) == IsLower(c) \/ IsUpper(c) \/ IsDigit(c)

\* String.prototype.toUpperCase on one character
toUpperCase(c) ==
  IF IsLower(c) THEN UpperChars[CHOOSE i \in DOMAIN LowerChars : LowerChars[i] = c]
  ELSE c

\* String(n) for a natural number
RECURSIVE NatToString(_)
NatToString(n) ==
  IF n < 10 THEN <<DigitChars[n + 1]>>
  ELSE NatToString(n \div 10) \o <<DigitChars[(n % 10) + 1]>>

\* Array.prototype.join
RECURSIVE join(_, _)
join(parts, sep) ==
  IF Len(parts) = 0 THEN <<>>
  ELSE IF Len(parts) = 1 THEN parts[1]
  ELSE parts[1] \o sep \o join(Tail(parts), sep)

\* String.prototype.includes for a one-character needle
includes(s, c) == \E i \in DOMAIN s : s[i] = c

\* s.replace(/[^a-zA-Z0-9]+/g, ' '): every maximal run of non-alphanumerics
\* becomes one space
RECURSIVE replaceNonAlnumRuns(_)
replaceNonAlnumRuns(s) ==
  IF Len(s) = 0 THEN <<>>
  ELSE IF IsAlnum(s[1]) THEN <<s[1]>> \o replaceNonAlnumRuns(Tail(s))
  ELSE IF Len(s) > 1 /\ ~IsAlnum(s[2]) THEN replaceNonAlnumRuns(Tail(s))
  ELSE <<" ">> \o replaceNonAlnumRuns(Tail(s))

\* s.split(' '): the pieces between single spaces, empty pieces kept
RECURSIVE splitOn(_, _, _)
splitOn(s, sep, cur) ==
  IF Len(s) = 0 THEN <<cur>>
  ELSE IF s[1] = sep THEN <<cur>> \o splitOn(Tail(s), sep, <<>>)
  ELSE splitOn(Tail(s), sep, Append(cur, s[1]))

split(s, sep) == splitOn(s, sep, <<>>)

\* a variant of toPascal: the words keep their case
toPascalKeepCase(s) ==
  LET words == SelectSeq(split(replaceNonAlnumRuns(s), " "), LAMBDA w : Len(w) > 0)
  IN  join(words, <<>>)

toPascal(s) ==
  LET words == SelectSeq(split(replaceNonAlnumRuns(s), " "), LAMBDA w : Len(w) > 0)
      caps  == [i \in DOMAIN words |-> <<toUpperCase(words[i][1])>> \o Tail(words[i])]
  IN  join(caps, <<>>)

\* /^[A-Za-z_][A-Za-z0-9_]*$/.test(s)
isIdentifier(s) ==
  /\ Len(s) > 0
  /\ IsLower(s[1]) \/ IsUpper(s[1]) \/ s[1] = "_"
  /\ \A i \in 2..Len(s) : IsAlnum(s[i]) \/ s[i] = "_"

\* a variant of parenIfUnion: the expression is never parenthesized
parenNever(expr) == expr

parenIfUnion(expr) ==
  IF includes(expr, "|") THEN <<"(">> \o expr \o <<")">> ELSE expr

\* JSON.stringify of a string: quoted, with the quote and the backslash escaped
RECURSIVE jsonEscape(_)
jsonEscape(s) ==
  IF Len(s) = 0 THEN <<>>
  ELSE (IF s[1] = "\"" THEN <<"\\", "\"">>
        ELSE IF s[1] = "\\" THEN <<"\\", "\\">>
        ELSE IF s[1] = "\n" THEN <<"\\", "n">>
        ELSE <<s[1]>>) \o jsonEscape(Tail(s))

JSONstringify(s) == <<"\"">> \o jsonEscape(s) \o <<"\"">>

(***************************************************************************)
(* JavaScript Map: insertion-ordered entries, a set on an existing key     *)
(* keeps the key's place                                                   *)
(***************************************************************************)
MapHas(m, k) == \E i \in DOMAIN m : m[i].key = k
MapGet(m, k) == m[CHOOSE i \in DOMAIN m : m[i].key = k].value
MapSet(m, k, v) ==
  IF MapHas(m, k)
  THEN [i \in DOMAIN m |-> IF m[i].key = k THEN [key |-> k, value |-> v] ELSE m[i]]
  ELSE Append(m, [key |-> k, value |-> v])
MapKeys(m) == [i \in DOMAIN m |-> m[i].key]

(***************************************************************************)
(* JavaScript own-property order (Object.keys, Object.values): the keys    *)
(* that are array indices first, ascending, then the others as inserted.   *)
(* An array index is a canonical decimal below 2^32 - 1; the keys of the   *)
(* model have at most 9 digits, which TLC's integers hold.                 *)
(***************************************************************************)
RECURSIVE StringToNat(_)
StringToNat(k) ==
  IF Len(k) = 0 THEN 0
  ELSE 10 * StringToNat(SubSeq(k, 1, Len(k) - 1))
       + ((CHOOSE i \in DOMAIN DigitChars : DigitChars[i] = k[Len(k)]) - 1)

IsArrayIndex(k) ==
  /\ Len(k) > 0
  /\ Len(k) <= 9
  /\ \A i \in DOMAIN k : IsDigit(k[i])
  /\ Len(k) > 1 => k[1] # "0"

RECURSIVE SortNat(_)
SortNat(S) ==
  IF S = {} THEN <<>>
  ELSE LET m == CHOOSE a \in S : \A b \in S : a <= b
       IN  <<m>> \o SortNat(S \ {m})

OwnKeys(keys) ==
  LET ints == SortNat({StringToNat(keys[i]) : i \in {j \in DOMAIN keys : IsArrayIndex(keys[j])}})
  IN  [i \in DOMAIN ints |-> NatToString(ints[i])]
      \o SelectSeq(keys, LAMBDA k : ~IsArrayIndex(k))

\* an object is its properties as written: a sequence of [key, value]
PropKeys(obj) == [i \in DOMAIN obj |-> obj[i].key]
PropGet(obj, k) == obj[CHOOSE i \in DOMAIN obj : obj[i].key = k].value
ObjectKeys(obj) == OwnKeys(PropKeys(obj))
ObjectValues(obj) == LET ks == ObjectKeys(obj) IN [i \in DOMAIN ks |-> PropGet(obj, ks[i])]

(***************************************************************************)
(* Schema nodes: a Zod schema is a record with its kind (what getKind      *)
(* returns) and the fields of its _def that the translator reads           *)
(***************************************************************************)
Undefined == [kind |-> "undefined"]

WrapperKinds == {"ZodOptional", "ZodNullable", "ZodDefault", "ZodCatch",
                 "ZodReadonly", "ZodBranded", "ZodEffects", "ZodPipeline"}

getKind(s) == IF s.kind = "undefined" THEN "Unknown" ELSE s.kind

\* (s as any).description ; '' stands for undefined as well, both are falsy
Description(s) == IF "description" \in DOMAIN s THEN s.description ELSE <<>>

\* the node a wrapper's _def holds (innerType, type, schema, out, in)
Inner(s) == IF "innerType" \in DOMAIN s THEN s.innerType ELSE Undefined

UnwrapBudget == 50

\* one pass of the body of the loop of unwrapAll; left is set by its break, and the
\* passes after a break do nothing
unwrapPass(st) ==
  IF st.left THEN st
  ELSE LET k == getKind(st.schema)
           inner == IF Inner(st.schema) = Undefined THEN st.schema ELSE Inner(st.schema)
       IN  IF k = "ZodOptional" THEN [st EXCEPT !.schema = inner, !.optional = TRUE]
           ELSE IF k = "ZodNullable" THEN [st EXCEPT !.schema = inner, !.nullable = TRUE]
           ELSE IF k \in WrapperKinds THEN [st EXCEPT !.schema = inner]
           ELSE [st EXCEPT !.left = TRUE]

\* n passes of the loop, one after the other: the first half of them, then the rest
RECURSIVE unwrapLoop(_, _)
unwrapLoop(st, n) ==
  IF n = 0 THEN st
  ELSE IF n = 1 THEN unwrapPass(st)
  ELSE With(unwrapLoop(st, n \div 2), LAMBDA half : unwrapLoop(half, n - (n \div 2)))

\* for (let i = 0; i < 50; i++) { ... }: what the loop leaves after at most 50 passes
unwrapAll(s) ==
  With(unwrapLoop([schema |-> s, optional |-> FALSE, nullable |-> FALSE, left |-> FALSE],
                  UnwrapBudget),
       LAMBDA st : [base |-> st.schema, optional |-> st.optional, nullable |-> st.nullable])

\* a variant of unwrapModifiers: the flags of the wrappers are dropped
unwrapModifiersBaseOnly(s) ==
  [base |-> unwrapAll(s).base, optional |-> FALSE, nullable |-> FALSE,
   description |-> Description(s)]

unwrapModifiers(s) ==
  LET u == unwrapAll(s)
  IN  [base |-> u.base, optional |-> u.optional, nullable |-> u.nullable,
       description |-> Description(s)]

(***************************************************************************)
(* The translation context and the names it hands out                      *)
(***************************************************************************)
sRoot == <<"R","o","o","t">>
sObj == <<"O","b","j">>
sEnum == <<"E","n","u","m">>
sGen == <<"G","e","n">>
sItem == <<"I","t","e","m">>
sKey == <<"K","e","y">>
sVal == <<"V","a","l">>
sString == <<"s","t","r","i","n","g">>
sInt == <<"i","n","t">>
sFloat == <<"f","l","o","a","t">>
sBool == <<"b","o","o","l">>
sNull == <<"n","u","l","l">>
sUnionOp == <<" ","|"," ">>
sArraySuffix == <<"[","]">>
sNewline == <<"\n">>

\* the context buildBamlFromZod starts from
NewCtx == [types |-> <<>>, order |-> <<>>, enums |-> <<>>, aliases |-> <<>>, counter |-> 0]

RECURSIVE classNameLoop(_, _, _)
classNameLoop(c, clean, name) ==
  IF MapHas(c.types, name)
  THEN classNameLoop([c EXCEPT !.counter = @ + 1], clean, clean \o NatToString(c.counter + 1))
  ELSE [name |-> name, ctx |-> c]

uniqueClassName(c, base) ==
  With(toPascal(base), LAMBDA clean : classNameLoop(c, clean, clean))

RECURSIVE aliasNameLoop(_, _, _)
aliasNameLoop(c, clean, name) ==
  IF MapHas(c.enums, name) \/ MapHas(c.aliases, name)
  THEN aliasNameLoop([c EXCEPT !.counter = @ + 1], clean, clean \o NatToString(c.counter + 1))
  ELSE [name |-> name, ctx |-> c]

uniqueAliasOrEnumName(c, base) ==
  With(toPascal(base), LAMBDA clean : aliasNameLoop(c, clean, clean))

\* hintName || dflt ; hintName ? hintName + suffix : undefined
HintOr(hintName, dflt) == IF Len(hintName) > 0 THEN hintName ELSE dflt
HintPlus(hintName, suffix) == IF Len(hintName) > 0 THEN hintName \o suffix ELSE <<>>

(***************************************************************************)
(* toBamlType: the result is the type expression and the context as the    *)
(* call left it, or the error thrown                                       *)
(***************************************************************************)
Returned(type, c) == [type |-> type, ctx |-> c, err |-> ""]
Thrown(msg, c) == [type |-> <<>>, ctx |-> c, err |-> msg]

\* a variant of fieldType: a nullable inner union is not parenthesized
fieldTypeNoParen(innerType, nullable) ==
  IF nullable THEN innerType \o sUnionOp \o sNull ELSE innerType

\* const type = nullable ? `${parenIfUnion(innerType)} | null` : innerType
fieldType(innerType, nullable) ==
  IF nullable THEN parenIfUnion(innerType) \o sUnionOp \o sNull ELSE innerType

\* a variant of arrayType: the suffix is appended to the bare expression
arrayTypeBare(inner) == inner \o sArraySuffix

\* return `${parenIfUnion(inner)}[]`
arrayType(inner) == parenIfUnion(inner) \o sArraySuffix

\* values.map((v) => JSON.stringify(v)).join(' | ')
literalUnion(values) == join([i \in DOMAIN values |-> JSONstringify(values[i])], sUnionOp)

\* a variant of registerEnum: a named enumeration whatever the values
registerEnumAlways(c, name, values) == [c EXCEPT !.enums = MapSet(@, name, values)]

\* idSafe ? ctx.enums.set(name, values) : ctx.aliases.set(name, <literal union>)
registerEnum(c, name, values) ==
  IF \A i \in DOMAIN values : isIdentifier(values[i])
  THEN [c EXCEPT !.enums = MapSet(@, name, values)]
  ELSE [c EXCEPT !.aliases = MapSet(@, name, literalUnion(values))]

\* the element schema of an array: def.element ?? def.type ?? def.items ?? def.item
\* ?? def.itemType
ArrayFields == <<"element", "type", "items", "item", "itemType">>
arrayInner(def) ==
  IF \E i \in DOMAIN ArrayFields : ArrayFields[i] \in DOMAIN def
  THEN def[ArrayFields[CHOOSE i \in DOMAIN ArrayFields :
                         /\ ArrayFields[i] \in DOMAIN def
                         /\ \A j \in 1..(i - 1) : ArrayFields[j] \notin DOMAIN def]]
  ELSE Undefined

\* Object.values(def.values ?? {}).filter((v) => typeof v === 'string')
nativeEnumValues(def) ==
  LET vals == IF "entries" \in DOMAIN def THEN ObjectValues(def.entries) ELSE <<>>
      strs == SelectSeq(vals, LAMBDA v : v.t = "string")
  IN  [i \in DOMAIN strs |-> strs[i].s]

RECURSIVE toBamlType(_, _, _)
RECURSIVE translateFields(_, _, _, _, _)
RECURSIVE translateOptions(_, _, _, _, _)

\* case 'ZodObject': the loop over Object.keys(shapeObj)
translateFields(keys, shape, name, c, fields) ==
  IF Len(keys) = 0 THEN [fields |-> fields, ctx |-> c, err |-> ""]
  ELSE
    With(Head(keys), LAMBDA key :
    With(unwrapModifiers(PropGet(shape, key)), LAMBDA m :
    With(toBamlType(m.base, c, name \o <<"_">> \o key), LAMBDA r :
      IF r.err # "" THEN [fields |-> fields, ctx |-> r.ctx, err |-> r.err]
      ELSE
        With(Append(fields, [name |-> key,
                             type |-> fieldType(r.type, m.nullable),
                             optional |-> m.optional,
                             description |-> m.description]), LAMBDA fields2 :
        With(Tail(keys), LAMBDA rest :
          translateFields(rest, shape, name, r.ctx, fields2))))))

\* case 'ZodUnion': options.map((o, i) => toBamlType(o, ctx, hintName + 'U' + i))
translateOptions(options, i, hintName, c, parts) ==
  IF i > Len(options) THEN [parts |-> parts, ctx |-> c, err |-> ""]
  ELSE
    With(toBamlType(options[i], c, HintPlus(hintName, <<"U">> \o NatToString(i - 1))),
         LAMBDA r :
      IF r.err # "" THEN [parts |-> parts, ctx |-> r.ctx, err |-> r.err]
      ELSE With(Append(parts, r.type), LAMBDA ps :
             translateOptions(options, i + 1, hintName, r.ctx, ps)))

caseZodObject(def, c, hintName) ==
  With(uniqueClassName(c, HintOr(hintName, sObj)), LAMBDA u :
  With(translateFields(ObjectKeys(def.shape), def.shape, u.name, u.ctx, <<>>), LAMBDA r :
    IF r.err # "" THEN Thrown(r.err, r.ctx)
    ELSE Returned(u.name,
           [r.ctx EXCEPT !.types = MapSet(@, u.name, [name |-> u.name, fields |-> r.fields]),
                         !.order = Append(@, u.name)])))

caseZodLiteral(def) ==
  IF def.value.t = "string" THEN sString
  ELSE IF def.value.t = "number" THEN (IF def.value.isInteger THEN sInt ELSE sFloat)
  ELSE IF def.value.t = "boolean" THEN sBool
  ELSE sString

\* a variant of caseZodArray: a nullable element keeps a null member
caseZodArrayNullable(def, c, hintName) ==
  With(arrayInner(def), LAMBDA innerSchema :
  With(IF innerSchema = Undefined THEN Undefined ELSE unwrapAll(innerSchema),
       LAMBDA u :
    IF u = Undefined THEN Returned(arrayType(sString), c)
    ELSE With(toBamlType(u.base, c, HintPlus(hintName, sItem)), LAMBDA r :
           IF r.err # "" THEN r
           ELSE Returned(arrayType(fieldType(r.type, u.nullable)), r.ctx))))

caseZodArray(def, c, hintName) ==
  With(arrayInner(def), LAMBDA innerSchema :
  With(IF innerSchema = Undefined THEN Undefined ELSE unwrapAll(innerSchema).base,
       LAMBDA innerUnwrapped :
    IF innerUnwrapped = Undefined THEN Returned(arrayType(sString), c)
    ELSE With(toBamlType(innerUnwrapped, c, HintPlus(hintName, sItem)), LAMBDA r :
           IF r.err # "" THEN r ELSE Returned(arrayType(r.type), r.ctx))))

caseZodEnum(def, c, hintName) ==
  With(IF "values" \in DOMAIN def THEN def.values ELSE <<>>, LAMBDA values :
    IF Len(values) = 0 THEN Returned(sString, c)
    ELSE With(uniqueAliasOrEnumName(c, HintOr(hintName, sEnum)), LAMBDA u :
           Returned(u.name, registerEnum(u.ctx, u.name, values))))

caseZodNativeEnum(def, c, hintName) ==
  With(nativeEnumValues(def), LAMBDA values :
  With(uniqueAliasOrEnumName(c, HintOr(hintName, sEnum)), LAMBDA u :
    Returned(u.name, registerEnum(u.ctx, u.name, values))))

caseZodRecord(def, c, hintName) ==
  With(IF "keyType" \in DOMAIN def THEN def.keyType ELSE [kind |-> "ZodString"],
       LAMBDA keyType :
  With(IF "valueType" \in DOMAIN def THEN def.valueType ELSE Undefined, LAMBDA valType :
  With(toBamlType(keyType, c, HintPlus(hintName, sKey)), LAMBDA k :
    IF k.err # "" THEN k
    ELSE With(toBamlType(valType, k.ctx, HintPlus(hintName, sVal)), LAMBDA v :
           IF v.err # "" THEN v
           ELSE Returned(<<"m","a","p","<">> \o k.type \o <<",", " ">> \o v.type \o <<">">>,
                         v.ctx)))))

caseZodUnion(def, c, hintName) ==
  With(translateOptions(def.options, 1, hintName, c, <<>>), LAMBDA r :
    IF r.err # "" THEN Thrown(r.err, r.ctx)
    ELSE Returned(join(r.parts, sUnionOp), r.ctx))

caseDefault(base, c, hintName) ==
  IF Inner(base) # Undefined THEN toBamlType(Inner(base), c, hintName)
  ELSE Thrown("Unsupported Zod type: " \o getKind(base), c)

toBamlType(schema, c, hintName) ==
  With(unwrapAll(schema).base, LAMBDA base :
  With(getKind(base), LAMBDA k :
    IF base = Undefined THEN Thrown("TypeError: Cannot read properties of undefined", c)
    ELSE IF k = "ZodObject" THEN caseZodObject(base, c, hintName)
    ELSE IF k = "ZodString" THEN Returned(sString, c)
    ELSE IF k = "ZodNumber"
      THEN Returned(IF \E i \in DOMAIN base.checks : base.checks[i] = "int"
                    THEN sInt ELSE sFloat, c)
    ELSE IF k = "ZodBoolean" THEN Returned(sBool, c)
    ELSE IF k = "ZodLiteral" THEN Returned(caseZodLiteral(base), c)
    ELSE IF k = "ZodNull" THEN Returned(sNull, c)
    ELSE IF k = "ZodArray" THEN caseZodArray(base, c, hintName)
    ELSE IF k = "ZodEnum" THEN caseZodEnum(base, c, hintName)
    ELSE IF k = "ZodNativeEnum" THEN caseZodNativeEnum(base, c, hintName)
    ELSE IF k = "ZodRecord" THEN caseZodRecord(base, c, hintName)
    ELSE IF k = "ZodUnion" THEN caseZodUnion(base, c, hintName)
    ELSE IF k = "ZodLazy" THEN toBamlType(base.getter, c, hintName)
    ELSE caseDefault(base, c, hintName)))

(***************************************************************************)
(* renderTypes and buildBamlFromZod                                        *)
(***************************************************************************)
RECURSIVE flatten(_)
flatten(seqs) == IF Len(seqs) = 0 THEN <<>> ELSE Head(seqs) \o flatten(Tail(seqs))

enumLines(e) ==
  <<(<<"e","n","u","m"," ">> \o e.key \o <<" ","{">>)>>
  \o [i \in DOMAIN e.value |-> <<" "," ">> \o e.value[i]]
  \o << <<"}">> >>

aliasLine(a) == <<"t","y","p","e"," ">> \o a.key \o <<" ","="," ">> \o a.value

fieldLine(f) ==
  <<" "," ">> \o f.name \o <<" ">> \o f.type
  \o (IF f.optional THEN <<"?">> ELSE <<>>)
  \o (IF Len(f.description) > 0
      THEN <<" ","@","d","e","s","c","r","i","p","t","i","o","n","(">>
           \o JSONstringify(f.description) \o <<")">>
      ELSE <<>>)

classLines(cls) ==
  <<(<<"c","l","a","s","s"," ">> \o cls.name \o <<" ","{">>)>>
  \o [i \in DOMAIN cls.fields |-> fieldLine(cls.fields[i])]
  \o << <<"}">> >>

renderLines(c) ==
  flatten([i \in DOMAIN c.enums |-> enumLines(c.enums[i])])
  \o [i \in DOMAIN c.aliases |-> aliasLine(c.aliases[i])]
  \o flatten([i \in DOMAIN c.order |-> classLines(MapGet(c.types, c.order[i]))])

renderTypes(c) == join(renderLines(c), sNewline)

sHeader == <<"g","e","n","e","r","a","t","o","r"," ","t","y","p","e","s","c","r","i","p","t"," ","{","\n"," "," ","o","u","t","p","u","t","_","t","y","p","e"," ","\"","t","y","p","e","s","c","r","i","p","t","\"","\n"," "," ","m","o","d","u","l","e","_","f","o","r","m","a","t"," ","\"","c","j","s","\"","\n","}","\n">>
sFuncBody == <<" ","{","\n"," "," ","c","l","i","e","n","t"," ","\"","o","p","e","n","a","i","/","g","p","t","-","5","\"","\n"," "," ","p","r","o","m","p","t"," ","#","\"","\n"," "," "," "," ","{","{"," ","i","n","p","u","t"," ","}","}","\n"," "," "," "," ","{","{"," ","c","t","x",".","o","u","t","p","u","t","_","f","o","r","m","a","t"," ","}","}","\n"," "," ","\"","#","\n","}","\n">>

\* lines 11-19: the translation of the root in context c, and the rendering
buildFrom(schema, c) ==
  With(toBamlType(schema, c, sRoot), LAMBDA r :
    LET funcName == sGen \o sRoot
        func == <<"f","u","n","c","t","i","o","n"," ">> \o funcName
                \o <<"(","i","n","p","u","t",":"," ","s","t","r","i","n","g",")"," ","-",">"," ">>
                \o r.type \o sFuncBody
    IN  [err |-> r.err,
         bamlFile |-> IF r.err # "" THEN <<>>
                      ELSE join(<<sHeader, renderTypes(r.ctx), func>>, sNewline),
         funcName |-> IF r.err # "" THEN <<>> ELSE funcName,
         rootType |-> r.type,
         ctx |-> r.ctx])

\* a variant that keeps one context across translations
buildBamlFromZodSharedCtx(schema) == buildFrom(schema, ctx)

\* lines 4-10: every translation starts from a context of its own
buildBamlFromZod(schema) == buildFrom(schema, NewCtx)

(***************************************************************************)
(* Cache key and workspace path (generateObjectCompat, prepareWorkspace)   *)
(***************************************************************************)
\* createHash('sha256').update(text).digest('hex'): a digest taken to be free of
\* collisions, so it is the text under a tag
sha256hex(text) == [sha256 |-> text]

\* resolve(resolve(tmpdir(), 'baml-runtime-cache'), key)
workspaceDir(key) == <<"tmpdir", "baml-runtime-cache", key>>

(***************************************************************************)
(* The schemas the translation is checked on                               *)
(***************************************************************************)
zString == [kind |-> "ZodString"]
zInt == [kind |-> "ZodNumber", checks |-> <<"int">>]
zFloat == [kind |-> "ZodNumber", checks |-> <<>>]
zBoolean == [kind |-> "ZodBoolean"]
zDate == [kind |-> "ZodDate"]
zOptional(s) == [kind |-> "ZodOptional", innerType |-> s]
zNullable(s) == [kind |-> "ZodNullable", innerType |-> s]
zDefault(s) == [kind |-> "ZodDefault", innerType |-> s]
zArray(s) == [kind |-> "ZodArray", element |-> s]
zObject(shape) == [kind |-> "ZodObject", shape |-> shape]
zUnion(options) == [kind |-> "ZodUnion", options |-> options]
zRecord(k, v) == [kind |-> "ZodRecord", keyType |-> k, valueType |-> v]
zLazy(s) == [kind |-> "ZodLazy", getter |-> s]
zEnum(values) == [kind |-> "ZodEnum", values |-> values]
zNativeEnum(entries) == [kind |-> "ZodNativeEnum", entries |-> entries]
Prop(k, v) == [key |-> k, value |-> v]
StrVal(s) == [t |-> "string", s |-> s]
NumVal(n) == [t |-> "number", n |-> n]

sAdmin == <<"A","d","m","i","n">>
sUser == <<"U","s","e","r">>
sNorthAmerica == <<"N","o","r","t","h"," ","A","m","e","r","i","c","a">>
sEurope == <<"E","u","r","o","p","e">>
sQuoted == <<"a","\"","b">>
sUp == <<"U","p">>

\* enum Role { Admin = 'Admin', User = 'User' }
RoleEnum == <<Prop(sAdmin, StrVal(sAdmin)), Prop(sUser, StrVal(sUser))>>
\* enum Mixed { Up, Area = 'North America' }, with the reverse mapping of Up
MixedEnum == <<Prop(<<"0">>, StrVal(sUp)), Prop(sUp, NumVal(0)),
               Prop(<<"A","r","e","a">>, StrVal(sNorthAmerica))>>

EnumSchemas ==
  { zEnum(<<sAdmin, sUser>>), zEnum(<<sNorthAmerica, sEurope>>), zEnum(<<sUser, sQuoted>>),
    zNativeEnum(RoleEnum), zNativeEnum(MixedEnum) }

AtomSchemas == {zString, zInt, zFloat, zBoolean, zDate}

UnionSchemas ==
  { zUnion(<<a, b>>) : a, b \in {zString, zInt, zObject(<<>>), zEnum(<<sAdmin, sUser>>)} }
  \cup { zUnion(<<zNullable(zString), zInt>>) }

RecordSchemas ==
  { zRecord(zString, v) :
      v \in {zInt, zUnion(<<zString, zInt>>), zObject(<<>>), zNullable(zInt)} }

SimpleSchemas == AtomSchemas \cup EnumSchemas \cup UnionSchemas \cup RecordSchemas

ElementSchemas ==
  SimpleSchemas
  \cup { zArray(zString), zArray(zUnion(<<zString, zInt>>)),
         zNullable(zString), zNullable(zUnion(<<zString, zInt>>)),
         zLazy(zUnion(<<zString, zInt>>)), zObject(<<Prop(<<"a">>, zString)>>) }

ArraySchemas == { zArray(e) : e \in ElementSchemas }

WrappedSchemas ==
  { zOptional(zString), zNullable(zInt), zDefault(zObject(<<>>)),
    zLazy(zObject(<<Prop(<<"a">>, zInt)>>)), zOptional(zNullable(zEnum(<<sAdmin, sUser>>))) }

FieldKeys == { <<"a">>, <<"A">>, <<"_">>, <<"1">> }

FieldSchemas ==
  { zString, zOptional(zInt), zNullable(zUnion(<<zString, zInt>>)),
    zEnum(<<sAdmin, sUser>>), zEnum(<<sNorthAmerica, sEurope>>),
    zObject(<<>>), zObject(<<Prop(<<"_">>, zObject(<<>>))>>),
    zOptional(zNullable(zString)), zOptional(zUnion(<<zString, zInt>>)) }

MaxFields == 2

\* the shapes with n fields, their keys distinct, in every order of declaration
RECURSIVE Shapes(_)
Shapes(n) ==
  IF n = 0 THEN { <<>> }
  ELSE { Append(sh, Prop(k, v)) :
           sh \in Shapes(n - 1), k \in FieldKeys, v \in FieldSchemas }

DistinctKeys(sh) == \A i, j \in DOMAIN sh : i # j => sh[i].key # sh[j].key

\* a shape in memory holds its keys in own-property order, whatever the order they
\* were written in
InMemory(sh) == DistinctKeys(sh) /\ OwnKeys(PropKeys(sh)) = PropKeys(sh)

ObjectSchemas ==
  { zObject(sh) : sh \in { t \in UNION { Shapes(n) : n \in 0..MaxFields } : InMemory(t) } }

\* n wrappers around a schema
\* n default wrappers around s
RECURSIVE Chain(_, _)
Chain(n, s) ==
  IF n = 0 THEN s
  ELSE IF n = 1 THEN zDefault(s)
  ELSE With(Chain(n \div 2, s), LAMBDA half : Chain(n - (n \div 2), half))

\* wrapper chains as long as unwrapAll peels, and longer by one, at the root and
\* in a field
ChainSchemas ==
  { Chain(UnwrapBudget, zString), Chain(UnwrapBudget + 1, zString),
    zObject(<<Prop(<<"a">>, Chain(UnwrapBudget - 1, zOptional(zString)))>>),
    zObject(<<Prop(<<"a">>, Chain(UnwrapBudget, zOptional(zString)))>>) }

Schemas ==
  SimpleSchemas \cup ArraySchemas \cup WrappedSchemas \cup ObjectSchemas \cup ChainSchemas

(***************************************************************************)
(* Translation: buildBamlFromZod is called on one schema, again and again, *)
(* as successive generateObjectCompat invocations of one process do        *)
(***************************************************************************)
MaxBuilds == 2

\* the variables of the hint merge and of the pipeline, while they are not in use
ExecParked == proc = Undefined
RequestParked == opts = Undefined /\ request = Undefined
MergeParked == hint = <<>> /\ messages = <<>> /\ merged = <<>> /\ RequestParked /\ ExecParked
PipelineParked == env = <<>> /\ fs = <<>> /\ inv = <<>>
WalkParked == walk = Undefined
TranslateParked == rootSchema = Undefined /\ ctx = NewCtx /\ built = <<>> /\ WalkParked

InitTranslate ==
  /\ rootSchema \in Schemas
  /\ ctx = NewCtx
  /\ built = <<>>
  /\ WalkParked
  /\ MergeParked
  /\ PipelineParked

\* generateObjectCompat, lines 39-44: the translation, the key and the workspace
BuildBaml ==
  /\ Len(built) < MaxBuilds
  /\ \E b \in {buildBamlFromZod(rootSchema)} :
         /\ ctx' = b.ctx
         /\ built' = Append(built,
              [err |-> b.err, bamlFile |-> b.bamlFile, funcName |-> b.funcName,
               rootType |-> b.rootType,
               cacheKey |-> sha256hex(b.bamlFile),
               workspace |-> workspaceDir(sha256hex(b.bamlFile))])
  /\ UNCHANGED <<rootSchema, walk, mvars, pvars>>

NextTranslate == BuildBaml

SpecTranslate == InitTranslate /\ [][NextTranslate]_vars

(***************************************************************************)
(* Properties of the translation                                           *)
(***************************************************************************)
Translated == Len(built) > 0 /\ built[Len(built)].err = ""

NoDuplicates(seq) == \A i, j \in DOMAIN seq : i # j => seq[i] # seq[j]

\* one wrapper taken off a schema, its kind noted
stripOne(st) ==
  IF st.node.kind \in WrapperKinds
    THEN [node |-> st.node.innerType, kinds |-> Append(st.kinds, st.node.kind)]
  ELSE st

RECURSIVE stripMany(_, _)
stripMany(st, n) ==
  IF n = 0 THEN st
  ELSE IF n = 1 THEN stripOne(st)
  ELSE With(stripMany(st, n \div 2), LAMBDA half : stripMany(half, n - (n \div 2)))

\* the longest wrapper chain of the schemas under check is within this
LongestChain == 2 * UnwrapBudget + 2

\* the schema under all its wrappers, and the kinds of the wrappers, outermost first
Stripped(node) == stripMany([node |-> node, kinds |-> <<>>], LongestChain).node
Wrappers(node) == stripMany([node |-> node, kinds |-> <<>>], LongestChain).kinds

\* the object schemas a translation meets in a schema
RECURSIVE CountObjects(_)
RECURSIVE CountObjectsIn(_)
CountObjectsIn(nodes) ==
  IF Len(nodes) = 0 THEN 0 ELSE CountObjects(Head(nodes)) + CountObjectsIn(Tail(nodes))
CountObjects(node) ==
  IF node.kind = "ZodObject"
    THEN 1 + CountObjectsIn([i \in DOMAIN node.shape |-> node.shape[i].value])
  ELSE IF node.kind = "ZodArray" THEN CountObjects(node.element)
  ELSE IF node.kind = "ZodUnion" THEN CountObjectsIn(node.options)
  ELSE IF node.kind = "ZodRecord" THEN CountObjects(node.keyType) + CountObjects(node.valueType)
  ELSE IF node.kind = "ZodLazy" THEN CountObjects(node.getter)
  ELSE IF node.kind \in WrapperKinds THEN CountObjects(Stripped(node))
  ELSE 0

\* C8: within one translation context all declared names are unique: the order list
\* holds no name twice, no class, enum or alias shares its name with another, and
\* every object schema has a class of its own.
C8_NamesUnique ==
  Translated =>
    /\ NoDuplicates(ctx.order)
    /\ NoDuplicates(MapKeys(ctx.types) \o MapKeys(ctx.enums) \o MapKeys(ctx.aliases))
    /\ Len(ctx.types) = CountObjects(rootSchema)

\* the node a schema stands for once its wrappers and lazy getters are resolved
RECURSIVE Resolved(_)
Resolved(node) ==
  IF node.kind \in WrapperKinds THEN Resolved(Stripped(node))
  ELSE IF node.kind = "ZodLazy" THEN Resolved(node.getter)
  ELSE node

\* the type expression of the element of the array schema under translation
ElementType == toBamlType(unwrapAll(rootSchema.element).base, NewCtx, sRoot \o sItem).type
ArrayTranslated == Translated /\ rootSchema.kind = "ZodArray"
RootType == built[Len(built)].rootType
Parenthesized(expr) == <<"(">> \o expr \o <<")">>

\* C9 as claimed: an element that translates to a union is parenthesized before the
\* array suffix, and an element that is not a union is rendered without parentheses.
C9_AsClaimed ==
  ArrayTranslated =>
    IF Resolved(rootSchema.element).kind = "ZodUnion"
    THEN RootType = Parenthesized(ElementType) \o <<"[","]">>
    ELSE RootType = ElementType \o <<"[","]">>

\* C9: an element that translates to a union is parenthesized before the array
\* suffix; an element whose expression holds no union operator is rendered without
\* parentheses; an element that is no union but holds one (an array of unions, a map
\* of unions) is parenthesized as well.
C9_ArrayOfUnion ==
  ArrayTranslated =>
    /\ Resolved(rootSchema.element).kind = "ZodUnion"
         => RootType = Parenthesized(ElementType) \o <<"[","]">>
    /\ ~includes(ElementType, "|") => RootType = ElementType \o <<"[","]">>
    /\ includes(ElementType, "|") => RootType = Parenthesized(ElementType) \o <<"[","]">>

\* an array of a union was translated
C9_Witness ==
  /\ ArrayTranslated
  /\ Resolved(rootSchema.element).kind = "ZodUnion"
  /\ RootType[1] = "("

\* the string values of an enum schema, as the translator reads them
EnumValues(node) ==
  IF node.kind = "ZodEnum" THEN node.values ELSE nativeEnumValues(node)
IsEnumSchema(node) == node.kind \in {"ZodEnum", "ZodNativeEnum"}

\* the policy for the enum schema node that was given the name
EnumPolicy(node, name) ==
  IF \A i \in DOMAIN EnumValues(node) : isIdentifier(EnumValues(node)[i])
  THEN /\ MapHas(ctx.enums, name)
       /\ MapGet(ctx.enums, name) = EnumValues(node)
       /\ ~MapHas(ctx.aliases, name)
  ELSE /\ MapHas(ctx.aliases, name)
       /\ MapGet(ctx.aliases, name)
            = join([i \in DOMAIN EnumValues(node) |-> JSONstringify(EnumValues(node)[i])],
                   <<" ","|"," ">>)
       /\ ~MapHas(ctx.enums, name)

\* C10: an Enum or NativeEnum with string values is registered as a named
\* enumeration with exactly those values in order if every value is an identifier,
\* and as a literal-union alias, and no enumeration, otherwise; so every value of
\* every registered enumeration is identifier-safe.
C10_EnumPolicy ==
  Translated =>
    /\ IsEnumSchema(Resolved(rootSchema)) => EnumPolicy(Resolved(rootSchema), RootType)
    /\ rootSchema.kind = "ZodObject" =>
         LET cls == MapGet(ctx.types, RootType)
         IN  \A i \in DOMAIN cls.fields :
               LET node == PropGet(rootSchema.shape, cls.fields[i].name)
               IN  IsEnumSchema(node) => EnumPolicy(node, cls.fields[i].type)
    /\ \A i \in DOMAIN ctx.enums :
         \A j \in DOMAIN ctx.enums[i].value : isIdentifier(ctx.enums[i].value[j])

\* an object with an identifier-safe enum field and a field of other values
C10_Witness ==
  /\ Translated
  /\ rootSchema.kind = "ZodObject"
  /\ Len(ctx.enums) > 0
  /\ Len(ctx.aliases) > 0
(***************************************************************************)
(* The JSON hint and the caller's messages: mergeJsonHintIntoMessages      *)
(***************************************************************************)
sSystem == <<"s","y","s","t","e","m">>
sUserRole == <<"u","s","e","r">>
sAssistant == <<"a","s","s","i","s","t","a","n","t">>
sBlankLine == <<"\n","\n">>

\* { role: 'system', content: hint }
SystemMessage(h) == [role |-> sSystem, content |-> h]

\* messages.slice(1)
slice1(ms) == SubSeq(ms, 2, Len(ms))

\* a variant that puts a new system message in front whatever the first message is
mergeAlwaysPrepend(h, ms) == <<SystemMessage(h)>> \o ms

mergeJsonHintIntoMessages(h, ms) ==
  IF Len(ms) = 0                                   \* first = messages[0]; !first
    THEN <<SystemMessage(h)>>
  ELSE IF ms[1].role = sSystem
    THEN <<[ms[1] EXCEPT !.content = ms[1].content \o sBlankLine \o h]>> \o slice1(ms)
  ELSE <<SystemMessage(h)>> \o ms

sBeBrief == <<"B","e"," ","b","r","i","e","f",".">>
sHello == <<"H","i">>
sJsonOnly == <<"J","S","O","N"," ","o","n","l","y">>
sShape == <<"{","}">>

MessageUniverse ==
  { [role |-> r, content |-> c] :
      r \in {sSystem, sUserRole, sAssistant}, c \in {sBeBrief, sHello} }
  \cup { [role |-> sSystem, content |-> sBeBrief, providerOptions |-> sShape] }

Hints == {sJsonOnly, sShape}

MaxMessages == 2

RECURSIVE MessageLists(_)
MessageLists(n) ==
  IF n = 0 THEN { <<>> }
  ELSE { Append(ms, m) : ms \in MessageLists(n - 1), m \in MessageUniverse }

InitMerge ==
  /\ hint \in Hints
  /\ messages \in UNION { MessageLists(n) : n \in 0..MaxMessages }
  /\ merged = <<>>
  /\ RequestParked
  /\ ExecParked
  /\ TranslateParked
  /\ PipelineParked

\* generateObjectCompat, lines 59-66: the messages of one generation request
MergeHint ==
  /\ merged = <<>>
  /\ merged' = mergeJsonHintIntoMessages(hint, messages)
  /\ UNCHANGED <<hint, messages, opts, request, proc, tvars, pvars>>

NextMerge == MergeHint

SpecMerge == InitMerge /\ [][NextMerge]_vars

Merged == merged # <<>>

\* C4: mergeJsonHintIntoMessages covers three cases. No message: the result is one
\* system message holding the hint. A first message of role system: that message
\* keeps its place, its role and its other fields, its content becomes the original
\* content followed by a blank line and the hint, and the other messages follow
\* unchanged. Any other first message: a new system message holding the hint is
\* put in front and every original message follows, unchanged and in order.
C4_MergeCases ==
  Merged =>
    IF Len(messages) = 0
      THEN merged = <<[role |-> sSystem, content |-> hint]>>
    ELSE IF messages[1].role = sSystem
      THEN /\ Len(merged) = Len(messages)
           /\ merged[1].role = sSystem
           /\ merged[1].content = messages[1].content \o <<"\n","\n">> \o hint
           /\ DOMAIN merged[1] = DOMAIN messages[1]
           /\ \A f \in DOMAIN messages[1] \ {"content"} : merged[1][f] = messages[1][f]
           /\ \A k \in 2..Len(messages) : merged[k] = messages[k]
    ELSE /\ Len(merged) = Len(messages) + 1
         /\ merged[1] = [role |-> sSystem, content |-> hint]
         /\ \A k \in 1..Len(messages) : merged[k + 1] = messages[k]

\* a system message followed by another message has been merged with the hint
C4_Witness ==
  /\ Merged
  /\ Len(messages) = 2
  /\ messages[1].role = sSystem
  /\ Len(merged) = 2
  /\ merged[1].content # messages[1].content

(***************************************************************************)
(* The pipeline: generateObjectCompat, prepareWorkspace,                   *)
(* buildAndLoadBamlClient, the external compiler, the generation           *)
(* collaborator and the loaded parse function                              *)
(***************************************************************************)
\* two invocations, in one process or in two, over one cache directory
Invocations == {1, 2}

attempts == 3
retryDelayMs == 250

\* a variant that probes the compiled forms before the TypeScript ones
ArtifactFormsCompiledFirst == <<"cjs", "js", "ts", "tsx">>

\* the probe order of buildAndLoadBamlClient: index.ts, index.tsx, index.cjs, index.js
ArtifactForms == <<"ts", "tsx", "cjs", "js">>

\* errors: where they are thrown, their message and, for the generation
\* collaborator, the attempt that threw
NoError == [origin |-> "", message |-> "", attempt |-> 0]
Err(origin, message) == [origin |-> origin, message |-> message, attempt |-> 0]
SchemaRequired == Err("generateObjectCompat", "schema is required")
TranslationError(message) == Err("toBamlType", message)
UnableToResolve == Err("buildAndLoadBamlClient", "Unable to resolve '@boundaryml/baml'. Make sure it is installed.")
NoPackageJson == Err("buildAndLoadBamlClient", "Could not locate package.json for '@boundaryml/baml'.")
NoBinField == Err("buildAndLoadBamlClient", "'bin' field not found or invalid in '@boundaryml/baml' package.json.")
NoCliEntry == Err("buildAndLoadBamlClient", "Resolved CLI entry does not exist")
CompileError == Err("execFile", "Command failed")
ClientNotFound == Err("buildAndLoadBamlClient", "BAML client not found (no index.ts/tsx/cjs/js)")
IncompleteArtifact == Err("load", "Cannot find module")
EmptyText == Err("generateObjectCompat", "generateText returned empty text")
NoTextRes == Err("generateObjectCompat", "Cannot read properties of undefined (reading 'text')")
GenerationError(n) == [origin |-> "generateText", message |-> "generation failed", attempt |-> n]
ParserError == Err("parse", "BamlValidationError")

\* the installation of '@boundaryml/baml' as lines 11-85 of buildAndLoadBamlClient
\* see it: whether the entry resolves, whether a package.json of that name is found
\* within 8 levels, what its bin field is, whether the CLI entry exists; and what
\* the machine has besides, which those lines do not look at: a baml-cli on the
\* system path, npx
Installed ==
  [entry |-> TRUE, pkg |-> TRUE, bin |-> "object", cli |-> TRUE,
   onPath |-> FALSE, npx |-> FALSE]
Envs ==
  { Installed,
    [Installed EXCEPT !.entry = FALSE],
    [Installed EXCEPT !.pkg = FALSE],
    [Installed EXCEPT !.bin = "none"],
    [Installed EXCEPT !.cli = FALSE],
    [Installed EXCEPT !.entry = FALSE, !.onPath = TRUE],
    [Installed EXCEPT !.cli = FALSE, !.npx = TRUE] }

\* lines 11-85: NoError when the CLI entry is resolved, the error thrown otherwise
resolveCli(e) ==
  IF ~e.entry THEN UnableToResolve
  ELSE IF ~e.pkg THEN NoPackageJson
  ELSE IF e.bin \notin {"string", "object"} THEN NoBinField
  ELSE IF ~e.cli THEN NoCliEntry
  ELSE NoError

\* values of the fields text and output_text of a generation result
Absent == [t |-> "undefined"]
Null == [t |-> "null"]
Str(s) == [t |-> "string", s |-> s]

\* a ?? b
nullish(a, b) == IF a.t \in {"undefined", "null"} THEN b ELSE a

\* a variant that takes the text field alone, as a string
extractTextStringified(res) ==
  IF res.text.t = "string" THEN res.text ELSE Str(<<"u","n","d","e","f","i","n","e","d">>)

\* generateObjectCompat, line 79: textRes.text ?? textRes.output_text ?? ''
extractText(res) == nullish(nullish(res.text, res.output_text), Str(<<>>))

\* !text, for what extractText gives
falsy(v) == v.t \in {"undefined", "null"} \/ (v.t = "string" /\ v.s = <<>>)

sRawText == <<"{","\"","a","\"",":","1","}">>
sRawOutput == <<"[","]">>

TextResult(t, o) ==
  [text |-> t, output_text |-> o, usage |-> "usage", finishReason |-> "stop"]

\* results of the generation collaborator: with neither field, with both empty,
\* with text alone, with output_text alone or beside an empty text, with both
TextResults ==
  { TextResult(Absent, Null), TextResult(Str(<<>>), Str(<<>>)),
    TextResult(Str(sRawText), Absent), TextResult(Absent, Str(sRawOutput)),
    TextResult(Str(<<>>), Str(sRawOutput)), TextResult(Str(sRawText), Str(sRawOutput)) }

\* the schemas handed to the pipeline: two that render to the same text, one that
\* renders to another, one the translator rejects, and none
PipelineSchemas == {zString, zOptional(zString), zBoolean, zDate, Undefined}

workspaceOf(schema) == workspaceDir(sha256hex(buildBamlFromZod(schema).bamlFile))

Workspaces ==
  { workspaceOf(sc) :
      sc \in { t \in PipelineSchemas \ {Undefined} : buildBamlFromZod(t).err = "" } }

\* a workspace directory of the cache: baml_src, baml_src/schema.baml, baml_client,
\* the index files in baml_client and whether the rest of the client is there
NoWorkspace ==
  [srcDir |-> FALSE, schemaBaml |-> [exists |-> FALSE, content |-> <<>>],
   clientDir |-> FALSE, index |-> {}, rest |-> FALSE]

\* the compiler process an invocation spawned: what it has done so far while it
\* runs, its exit code once it has exited
NoCompiler == [status |-> "none", done |-> {}, code |-> 0]

IdleInvocation ==
  [pc |-> "idle", workspace |-> <<>>, bamlFile |-> <<>>,
   funcName |-> <<>>, prior |-> {}, wroteSource |-> FALSE, spawned |-> 0,
   compiler |-> NoCompiler, outDirMade |-> FALSE, sawClientDir |-> FALSE,
   sawEmptyClient |-> FALSE, loads |-> 0, loaded |-> "", i |-> 0,
   genLog |-> <<>>, lastErr |-> NoError, textRes |-> Undefined, delays |-> <<>>,
   parseCalls |-> 0, error |-> NoError, result |-> Undefined]

Ended(k) == inv[k].pc \in {"succeeded", "failed"}

Init ==
  /\ env \in Envs
  /\ fs = [w \in Workspaces |-> NoWorkspace]
  /\ inv = [k \in Invocations |-> IdleInvocation]
  /\ TranslateParked
  /\ MergeParked

\* generateObjectCompat, lines 34-43: the schema is required, translated, and the
\* text is hashed into the cache key
Invoke(k) ==
  /\ inv[k].pc = "idle"
  /\ \E sc \in PipelineSchemas :
       LET started == [inv[k] EXCEPT !.prior = {j \in Invocations : Ended(j)}]
       IN  IF sc = Undefined
             THEN inv' = [inv EXCEPT ![k] =
                            [started EXCEPT !.pc = "failed", !.error = SchemaRequired]]
           ELSE \E b \in {buildBamlFromZod(sc)} :
                  IF b.err # ""
                    THEN inv' = [inv EXCEPT ![k] =
                                   [started EXCEPT !.pc = "failed",
                                                   !.error = TranslationError(b.err)]]
                  ELSE inv' = [inv EXCEPT ![k] =
                                 [started EXCEPT !.pc = "prepare",
                                                 !.bamlFile = b.bamlFile,
                                                 !.funcName = b.funcName,
                                                 !.workspace = workspaceDir(sha256hex(b.bamlFile))]]
  /\ UNCHANGED <<env, fs, tvars, mvars>>

\* prepareWorkspace: baml_src is created if absent, schema.baml is written
PrepareWorkspace(k) ==
  /\ inv[k].pc = "prepare"
  /\ fs' = [fs EXCEPT ![inv[k].workspace].srcDir = TRUE,
                      ![inv[k].workspace].schemaBaml =
                          [exists |-> TRUE, content |-> inv[k].bamlFile]]
  /\ inv' = [inv EXCEPT ![k].pc = "build", ![k].wroteSource = TRUE]
  /\ UNCHANGED <<env, tvars, mvars>>

\* a variant that runs the compiler whether baml_client exists or not
BuildClientAlwaysCompiles(k) ==
  /\ inv[k].pc = "build"
  /\ IF resolveCli(env) # NoError
       THEN inv' = [inv EXCEPT ![k].pc = "failed", ![k].error = resolveCli(env)]
     ELSE inv' = [inv EXCEPT ![k].pc = "compiling",
                             ![k].spawned = @ + 1,
                             ![k].compiler = [status |-> "running", done |-> {}, code |-> 0]]
  /\ UNCHANGED <<env, fs, tvars, mvars>>

\* buildAndLoadBamlClient, lines 9-93: if baml_client does not exist the CLI is
\* resolved and the compiler is spawned in the workspace
BuildClient(k) ==
  /\ inv[k].pc = "build"
  /\ IF fs[inv[k].workspace].clientDir
       THEN inv' = [inv EXCEPT ![k].pc = "load", ![k].sawClientDir = TRUE,
                               ![k].sawEmptyClient = (fs[inv[k].workspace].index = {})]
     ELSE IF resolveCli(env) # NoError
       THEN inv' = [inv EXCEPT ![k].pc = "failed", ![k].error = resolveCli(env)]
     ELSE inv' = [inv EXCEPT ![k].pc = "compiling",
                             ![k].spawned = @ + 1,
                             ![k].compiler = [status |-> "running", done |-> {}, code |-> 0]]
  /\ UNCHANGED <<env, fs, tvars, mvars>>

Running(k) == inv[k].pc = "compiling" /\ inv[k].compiler.status = "running"

\* the compiler creates the output directory baml_client
CompilerMakesDir(k) ==
  /\ Running(k)
  /\ "dir" \notin inv[k].compiler.done
  /\ fs' = [fs EXCEPT ![inv[k].workspace].clientDir = TRUE]
  /\ inv' = [inv EXCEPT ![k].compiler.done = @ \cup {"dir"}, ![k].outDirMade = TRUE]
  /\ UNCHANGED <<env, tvars, mvars>>

\* the compiler writes the index file of the client: the generator block of the
\* source asks for output_type "typescript", that is index.ts
CompilerWritesIndex(k) ==
  /\ Running(k)
  /\ "dir" \in inv[k].compiler.done
  /\ "index" \notin inv[k].compiler.done
  /\ fs' = [fs EXCEPT ![inv[k].workspace].index = @ \cup {"ts"}]
  /\ inv' = [inv EXCEPT ![k].compiler.done = @ \cup {"index"}]
  /\ UNCHANGED <<env, tvars, mvars>>

\* the compiler writes the other files of the client
CompilerWritesRest(k) ==
  /\ Running(k)
  /\ "dir" \in inv[k].compiler.done
  /\ "rest" \notin inv[k].compiler.done
  /\ fs' = [fs EXCEPT ![inv[k].workspace].rest = TRUE]
  /\ inv' = [inv EXCEPT ![k].compiler.done = @ \cup {"rest"}]
  /\ UNCHANGED <<env, tvars, mvars>>

\* a variant that goes on to the load whatever the exit code
CompilerExitsIgnoresCode(k) ==
  /\ Running(k)
  /\ \E code \in {0, 1} :
       inv' = [inv EXCEPT ![k].compiler = [status |-> "exited", done |-> {}, code |-> code],
                          ![k].pc = "load"]
  /\ UNCHANGED <<env, fs, tvars, mvars>>

\* execFile, lines 8-11: the compiler exits, at any point of its work, and the
\* promise buildAndLoadBamlClient awaits is resolved or rejected; a compiler that
\* could not be spawned is one that exits with an error before it has done anything
CompilerExits(k) ==
  /\ Running(k)
  /\ \E code \in {0, 1} :
       inv' = [inv EXCEPT ![k].compiler = [status |-> "exited", done |-> {}, code |-> code],
                          ![k].pc = IF code = 0 THEN "load" ELSE "failed",
                          ![k].error = IF code = 0 THEN NoError ELSE CompileError]
  /\ UNCHANGED <<env, fs, tvars, mvars>>

\* the first of index.ts, index.tsx, index.cjs, index.js that exists, "" if none
RECURSIVE probe(_, _)
probe(forms, index) ==
  IF Len(forms) = 0 THEN ""
  ELSE IF Head(forms) \in index THEN Head(forms)
  ELSE probe(Tail(forms), index)

\* buildAndLoadBamlClient, lines 95-137: the index files are probed in order and
\* the first that exists is loaded; loading fails if the client is not all there
Load(k) ==
  /\ inv[k].pc = "load"
  /\ LET w == fs[inv[k].workspace]
         form == probe(ArtifactForms, w.index)
     IN  IF form = ""
           THEN inv' = [inv EXCEPT ![k].pc = "failed", ![k].loads = @ + 1,
                                   ![k].error = ClientNotFound]
         ELSE IF ~w.rest
           THEN inv' = [inv EXCEPT ![k].pc = "failed", ![k].loads = @ + 1,
                                   ![k].loaded = form,
                                   ![k].error = IncompleteArtifact]
         ELSE inv' = [inv EXCEPT ![k].pc = "generate", ![k].loads = @ + 1,
                                 ![k].loaded = form]
  /\ UNCHANGED <<env, fs, tvars, mvars>>

\* a variant that takes the attempt after the last for the last
isLastAttemptOffByOne(n) == n = attempts

\* generateObjectCompat, line 74: i === attempts - 1
isLastAttempt(n) == n = attempts - 1

\* a variant that waits the same time after every failure
GenerateThrowsFlatDelay(k) ==
  /\ inv[k].pc = "generate"
  /\ LET e == GenerationError(inv[k].i + 1)
     IN  IF isLastAttempt(inv[k].i)
           THEN inv' = [inv EXCEPT ![k].genLog = Append(@, "threw"),
                                   ![k].lastErr = e,
                                   ![k].pc = "failed",
                                   ![k].error = e]
         ELSE inv' = [inv EXCEPT ![k].genLog = Append(@, "threw"),
                                 ![k].lastErr = e,
                                 ![k].pc = "sleeping",
                                 ![k].delays = Append(@, retryDelayMs)]
  /\ UNCHANGED <<env, fs, tvars, mvars>>

\* generateObjectCompat, lines 55-76: the generation call of attempt i + 1 throws
GenerateThrows(k) ==
  /\ inv[k].pc = "generate"
  /\ LET e == GenerationError(inv[k].i + 1)
     IN  IF isLastAttempt(inv[k].i)
           THEN inv' = [inv EXCEPT ![k].genLog = Append(@, "threw"),
                                   ![k].lastErr = e,
                                   ![k].pc = "failed",
                                   ![k].error = e]
         ELSE inv' = [inv EXCEPT ![k].genLog = Append(@, "threw"),
                                 ![k].lastErr = e,
                                 ![k].pc = "sleeping",
                                 ![k].delays = Append(@, retryDelayMs * (inv[k].i + 1))]
  /\ UNCHANGED <<env, fs, tvars, mvars>>

\* generateObjectCompat, lines 54 and 75: the delay is over, i++, i < attempts
Wake(k) ==
  /\ inv[k].pc = "sleeping"
  /\ IF inv[k].i + 1 < attempts
       THEN inv' = [inv EXCEPT ![k].i = @ + 1, ![k].pc = "generate"]
     ELSE inv' = [inv EXCEPT ![k].i = @ + 1, ![k].pc = "failed", ![k].error = NoTextRes]
  /\ UNCHANGED <<env, fs, tvars, mvars>>

\* generateObjectCompat, lines 56-71: the generation call returns, the loop is left
GenerateReturns(k) ==
  /\ inv[k].pc = "generate"
  /\ \E res \in TextResults :
       inv' = [inv EXCEPT ![k].genLog = Append(@, "returned"),
                          ![k].textRes = res,
                          ![k].pc = "returned"]
  /\ UNCHANGED <<env, fs, tvars, mvars>>

\* generateObjectCompat, lines 79-80: no text in the result
EmptyOutput(k) ==
  /\ inv[k].pc = "returned"
  /\ falsy(extractText(inv[k].textRes))
  /\ inv' = [inv EXCEPT ![k].pc = "failed", ![k].error = EmptyText]
  /\ UNCHANGED <<env, fs, tvars, mvars>>

\* generateObjectCompat, lines 79-88: the parse function accepts the text
ParseAccepts(k) ==
  /\ inv[k].pc = "returned"
  /\ ~falsy(extractText(inv[k].textRes))
  /\ inv' = [inv EXCEPT ![k].parseCalls = @ + 1,
                        ![k].pc = "succeeded",
                        ![k].result = [object |-> [parsed |-> extractText(inv[k].textRes).s],
                                       text |-> extractText(inv[k].textRes).s,
                                       usage |-> inv[k].textRes.usage,
                                       finishReason |-> inv[k].textRes.finishReason]]
  /\ UNCHANGED <<env, fs, tvars, mvars>>

\* a variant that goes back to the generation call when the parse function rejects
ParseRejectsRetries(k) ==
  /\ inv[k].pc = "returned"
  /\ ~falsy(extractText(inv[k].textRes))
  /\ inv[k].i + 1 < attempts
  /\ inv' = [inv EXCEPT ![k].parseCalls = @ + 1, ![k].i = @ + 1, ![k].pc = "generate"]
  /\ UNCHANGED <<env, fs, tvars, mvars>>

\* generateObjectCompat, line 82: the parse function throws, nothing catches it
ParseRejects(k) ==
  /\ inv[k].pc = "returned"
  /\ ~falsy(extractText(inv[k].textRes))
  /\ inv' = [inv EXCEPT ![k].parseCalls = @ + 1,
                        ![k].pc = "failed",
                        ![k].error = ParserError]
  /\ UNCHANGED <<env, fs, tvars, mvars>>

\* one step of invocation k
Step(k) ==
    \/ Invoke(k)
    \/ PrepareWorkspace(k)
    \/ BuildClient(k)
    \/ CompilerMakesDir(k)
    \/ CompilerWritesIndex(k)
    \/ CompilerWritesRest(k)
    \/ CompilerExits(k)
    \/ Load(k)
    \/ GenerateThrows(k)
    \/ Wake(k)
    \/ GenerateReturns(k)
    \/ EmptyOutput(k)
    \/ ParseAccepts(k)
    \/ ParseRejects(k)

Next == \E k \in Invocations : Step(k)

Spec == Init /\ [][Next]_vars

\* what an earlier process may have left in a workspace of the cache: nothing, or
\* the source and a baml_client directory with any of the index files in it
CachedWorkspaces(text) ==
  {NoWorkspace} \cup
  { [srcDir |-> TRUE, schemaBaml |-> [exists |-> TRUE, content |-> text],
     clientDir |-> TRUE, index |-> idx, rest |-> r] :
      idx \in SUBSET Range(ArtifactForms), r \in BOOLEAN }

\* one invocation in a process that starts on a cache earlier processes have
\* filled: the workspace of z.string() holds what they left
InitCache ==
  /\ env \in Envs
  /\ \E c \in CachedWorkspaces(buildBamlFromZod(zString).bamlFile) :
       fs = [w \in Workspaces |-> IF w = workspaceOf(zString) THEN c ELSE NoWorkspace]
  /\ inv = [k \in Invocations |-> IdleInvocation]
  /\ TranslateParked
  /\ MergeParked

NextCache == Step(1)

SpecCache == InitCache /\ [][NextCache]_vars

\* the same invocation when nothing it waits for stays out for ever: the event loop
\* runs its continuations, the timer of a delay fires, the compiler process exits,
\* and a call of the generation collaborator or of the parse function returns or
\* throws
SpecCacheFair == InitCache /\ [][NextCache]_vars /\ WF_vars(NextCache)

(***************************************************************************)
(* Properties of the pipeline                                              *)
(***************************************************************************)
\* the generation calls of invocation k so far: n that threw, then one that returned
ThrewThenReturned(k, n) ==
  /\ Len(inv[k].genLog) = n + 1
  /\ \A m \in 1..n : inv[k].genLog[m] = "threw"
  /\ inv[k].genLog[n + 1] = "returned"

\* the text generateObjectCompat hands to the parse function and returns
ResultOf(res) ==
  [object |-> [parsed |-> extractText(res).s], text |-> extractText(res).s,
   usage |-> res.usage, finishReason |-> res.finishReason]

\* C1: if the generation call throws on attempts 1 and 2 and returns on attempt 3
\* it has been called exactly 3 times and the operation goes on with the third
\* result, to the parse function (or to the empty-text failure); if it throws on all
\* 3 attempts it has been called exactly 3 times, and the operation has failed with
\* the error of the third attempt, unchanged. No call follows a call that returned.
C1_Retry ==
  \A k \in Invocations :
    /\ Len(inv[k].genLog) <= 3
    /\ \A m \in 1..(Len(inv[k].genLog) - 1) : inv[k].genLog[m] = "threw"
    /\ inv[k].genLog = <<"threw", "threw", "returned">> =>
         /\ inv[k].pc \in {"returned", "succeeded", "failed"}
         /\ inv[k].pc = "succeeded" => inv[k].result = ResultOf(inv[k].textRes)
         /\ inv[k].pc = "failed" => inv[k].error \in {EmptyText, ParserError}
    /\ inv[k].genLog = <<"threw", "threw", "threw">> =>
         /\ inv[k].pc = "failed"
         /\ inv[k].error = [origin |-> "generateText", message |-> "generation failed",
                            attempt |-> 3]

\* one invocation succeeded on its third attempt, the other failed on its third
C1_Witness ==
  /\ inv[1].genLog = <<"threw", "threw", "returned">>
  /\ inv[1].pc = "succeeded"
  /\ inv[2].genLog = <<"threw", "threw", "threw">>
  /\ inv[2].pc = "failed"

\* a result with no usable text: neither field holds a non-empty string
NoUsableText(res) ==
  /\ ~(res.text.t = "string" /\ Len(res.text.s) > 0)
  /\ ~(res.output_text.t = "string" /\ Len(res.output_text.s) > 0)

\* C2: when a generation call returns a result with no usable text, the operation
\* fails with the empty-text error and with nothing else, whichever attempt it was:
\* that return is the last generation call and the parse function is not invoked.
C2_EmptyOutput ==
  \A k \in Invocations :
    (\E n \in 0..2 : ThrewThenReturned(k, n)) /\ NoUsableText(inv[k].textRes) =>
      /\ inv[k].parseCalls = 0
      /\ inv[k].pc \in {"returned", "failed"}
      /\ inv[k].pc = "failed" =>
           inv[k].error = [origin |-> "generateObjectCompat",
                           message |-> "generateText returned empty text", attempt |-> 0]

\* the second attempt returned a result with no text at all, and the operation failed
C2_Witness ==
  \E k \in Invocations :
    /\ ThrewThenReturned(k, 1)
    /\ NoUsableText(inv[k].textRes)
    /\ inv[k].pc = "failed"
    /\ inv[k].parseCalls = 0

\* C3: the parse function is invoked at most once per invocation; once it has been
\* invoked the operation is over and no generation call has followed the one whose
\* result it was given; if it rejected the text, the error of the operation is the
\* error it threw, unchanged.
C3_ParseFailure ==
  \A k \in Invocations :
    /\ inv[k].parseCalls <= 1
    /\ inv[k].parseCalls = 1 =>
         /\ \E n \in 0..2 : ThrewThenReturned(k, n)
         /\ inv[k].pc \in {"succeeded", "failed"}
         /\ inv[k].pc = "failed" =>
              inv[k].error = [origin |-> "parse", message |-> "BamlValidationError",
                              attempt |-> 0]

\* the parse function rejected the text of a result
C3_Witness ==
  \E k \in Invocations :
    /\ inv[k].parseCalls = 1
    /\ inv[k].pc = "failed"
    /\ inv[k].error.origin = "parse"

\* invocation j was made after invocation i was over, and their schemas rendered to
\* the same source text
OneAfterTheOther(i, j) ==
  /\ i # j
  /\ i \in inv[j].prior
  /\ inv[i].workspace # <<>>
  /\ inv[i].bamlFile = inv[j].bamlFile

\* C5 as claimed: two runs, one after the other, whose schemas render to the same
\* text invoke the compiler at most once in total, whatever the outcome of the first.
C5_AsClaimed ==
  \A i, j \in Invocations :
    OneAfterTheOther(i, j) => inv[i].spawned + inv[j].spawned <= 1

\* C5: two runs, one after the other, whose schemas render to the same text invoke
\* the compiler at most once in total, unless the compiler of the first run exited
\* before it had created baml_client: then the second run, if it resolves the CLI,
\* invokes the compiler again. No run invokes the compiler twice.
C5_CacheReuse ==
  \A i, j \in Invocations :
    /\ inv[i].spawned <= 1
    /\ OneAfterTheOther(i, j) =>
         IF inv[i].spawned = 1 /\ ~inv[i].outDirMade
           THEN inv[j].pc \notin {"idle", "prepare", "build"} => inv[j].spawned = 1
         ELSE inv[i].spawned + inv[j].spawned <= 1

\* the first run compiled and failed all the same, the second found baml_client
C5_Witness ==
  \E i, j \in Invocations :
    /\ OneAfterTheOther(i, j)
    /\ inv[i].spawned = 1
    /\ inv[i].pc = "failed"
    /\ inv[j].sawClientDir
    /\ inv[j].spawned = 0
    /\ inv[j].pc = "succeeded"

\* the invocations i and j overlapped and their schemas rendered to the same text
Racing(i, j) ==
  /\ i # j
  /\ inv[i].workspace # <<>>
  /\ inv[i].bamlFile = inv[j].bamlFile
  /\ i \notin inv[j].prior
  /\ j \notin inv[i].prior

\* C6: concurrent invocations racing on one cache key are safe: an invocation that
\* found baml_client in place, while the compiler of the other went on to exit with
\* a complete client, neither fails for want of the client nor loads a client that
\* is not all there.
C6_RaceSafe ==
  \A i, j \in Invocations :
    ( /\ Racing(i, j)
      /\ inv[i].compiler.status = "exited"
      /\ inv[i].compiler.code = 0
      /\ inv[i].loaded # ""
      /\ inv[i].error # IncompleteArtifact
      /\ inv[j].sawClientDir )
    => inv[j].error \notin {ClientNotFound, IncompleteArtifact}

(***************************************************************************)
(* Properties of the translation of objects and of wrapper chains          *)
(***************************************************************************)
\* the number of wrappers around a schema
\* the number of wrappers around a schema
ChainLength(node) == Len(Wrappers(node))

\* the schema is wrapped, at some depth of its wrapper chain, in a wrapper of the kind
WrappedIn(node, kind) ==
  \/ \E i \in DOMAIN Wrappers(node) : Wrappers(node)[i] = kind
  \/ Stripped(node).kind = kind

sOrNull == <<" ","|"," ","n","u","l","l">>
EndsWithNull(t) == Len(t) >= 7 /\ SubSeq(t, Len(t) - 6, Len(t)) = sOrNull

\* the type expression the claim gives a field whose schema, without its wrappers,
\* is a primitive
PrimitiveType(node) ==
  IF node.kind = "ZodString" THEN <<"s","t","r","i","n","g">>
  ELSE IF node.kind = "ZodBoolean" THEN <<"b","o","o","l">>
  ELSE IF node.kind = "ZodNumber" /\ node.checks = <<"int">> THEN <<"i","n","t">>
  ELSE <<"f","l","o","a","t">>

RootClass == MapGet(ctx.types, RootType)
ObjectTranslated == Translated /\ rootSchema.kind = "ZodObject"

\* the optional flag and the type of every field of the class, read by its key,
\* for the fields with no more wrappers than one unwrapping peels
FieldFlags ==
  ObjectTranslated =>
    \A i \in DOMAIN RootClass.fields :
      LET f == RootClass.fields[i]
          node == PropGet(rootSchema.shape, f.name)
      IN  ChainLength(node) <= 50 =>
          /\ f.optional = WrappedIn(node, "ZodOptional")
          /\ EndsWithNull(f.type) = WrappedIn(node, "ZodNullable")
          /\ Resolved(node).kind \in {"ZodString", "ZodBoolean", "ZodNumber"} =>
               f.type = IF WrappedIn(node, "ZodNullable")
                          THEN PrimitiveType(Resolved(node)) \o sOrNull
                        ELSE PrimitiveType(Resolved(node))

Built == Len(built) > 0

\* C12: unwrapping peels at most 50 wrappers, and a schema whose wrapper chain is
\* longer makes the translation fail rather than return a type expression.
C12_UnwrapBound ==
  Built =>
    /\ ChainLength(rootSchema) - ChainLength(unwrapAll(rootSchema).base) <= 50
    /\ ChainLength(rootSchema) > 50 => built[Len(built)].err # ""

(***************************************************************************)
(* Properties of the build, the load and the generation request            *)
(***************************************************************************)
CompilerFailed(k) == inv[k].compiler.status = "exited" /\ inv[k].compiler.code # 0

\* C13: a failure of the compiler is fatal and is not retried: an invocation
\* spawns a compiler at most once, and when its compiler has failed the invocation
\* has failed with the compiler's error, with no generation call and no load.
C13_CompileFatal ==
  \A k \in Invocations :
    /\ inv[k].spawned <= 1
    /\ CompilerFailed(k) =>
         /\ inv[k].spawned = 1
         /\ inv[k].pc = "failed"
         /\ inv[k].error = [origin |-> "execFile", message |-> "Command failed", attempt |-> 0]
         /\ inv[k].genLog = <<>>
         /\ inv[k].loads = 0
         /\ inv[k].loaded = ""

\* a compiler failed after it had created baml_client
C13_Witness ==
  \E k \in Invocations :
    /\ CompilerFailed(k)
    /\ inv[k].outDirMade
    /\ inv[k].pc = "failed"


\* the index files of the workspace of invocation k
IndexOf(k) == fs[inv[k].workspace].index

\* the place of an index file in the claimed probe order
Rank(form) ==
  CASE form = "ts" -> 1 [] form = "tsx" -> 2 [] form = "cjs" -> 3 [] form = "js" -> 4

\* C14: after compilation or on a cache hit the loader probes index.ts, index.tsx,
\* index.cjs, index.js in that order and loads exactly the first that exists; it
\* fails with the client-not-found error if and only if none of them exists.
\* Checked for one invocation, so that the directory is at the end of the
\* invocation what it was when the loader probed it.
C14_ProbeOrder ==
  \A k \in Invocations :
    inv[k].loads > 0 =>
      /\ inv[k].loads = 1
      /\ inv[k].error = ClientNotFound <=> IndexOf(k) = {}
      /\ IndexOf(k) = {} => inv[k].loaded = ""
      /\ IndexOf(k) # {} =>
           /\ inv[k].loaded \in IndexOf(k)
           /\ \A f \in IndexOf(k) : Rank(inv[k].loaded) <= Rank(f)

C14_Witness ==
  \E k \in Invocations :
    /\ inv[k].loads = 1
    /\ inv[k].sawClientDir
    /\ IndexOf(k) = {"tsx", "cjs", "js"}
    /\ inv[k].loaded = "tsx"
    /\ inv[k].pc = "succeeded"


(***************************************************************************)
(* The generation request                                                  *)
(***************************************************************************)

Arr(a) == [t |-> "array", a |-> a]

\* the prompt and the messages a caller may give: each may be left out; a prompt
\* may be the empty string, the messages may be an empty array
Options ==
  { [prompt |-> p, messages |-> m] :
      p \in {Absent, Str(<<>>), Str(sHello)},
      m \in {Absent, Null} \cup { Arr(ms) : ms \in UNION { MessageLists(n) : n \in 0..MaxMessages } } }

\* generateObjectCompat, lines 56-70: the argument of generateText; a key whose
\* spread is {} is absent from the request
buildRequest(h, o) ==
  [prompt |-> IF falsy(o.prompt) THEN Absent
              ELSE Str(h \o sBlankLine \o o.prompt.s),
   messages |-> IF falsy(o.messages) THEN Absent
                ELSE Arr(mergeJsonHintIntoMessages(h, o.messages.a))]

InitRequest ==
  /\ hint \in Hints
  /\ opts \in Options
  /\ request = Undefined
  /\ messages = <<>>
  /\ merged = <<>>
  /\ ExecParked
  /\ TranslateParked
  /\ PipelineParked

\* generateObjectCompat, lines 56-70: the request of one generation call
BuildRequest ==
  /\ request = Undefined
  /\ request' = buildRequest(hint, opts)
  /\ UNCHANGED <<hint, messages, merged, opts, proc, tvars, pvars>>

NextRequest == BuildRequest

SpecRequest == InitRequest /\ [][NextRequest]_vars

Requested == request # Undefined

BothGiven == opts.prompt # Absent /\ opts.messages.t = "array"

\* C15: when the caller gives both a prompt and messages, the messages are used: the
\* request handed to generateText carries the messages with the hint merged into
\* the first system message (or put in front as a new system message) and carries
\* no prompt.
C15_MessagesWin ==
  (Requested /\ BothGiven) =>
    /\ request.messages = Arr(mergeJsonHintIntoMessages(hint, opts.messages.a))
    /\ request.prompt = Absent


Usable(v) == v.t = "string" /\ Len(v.s) > 0

\* C16: after a generation call that returned, the raw text is taken from either of
\* the fields text and output_text: the empty-text error is raised only if both are
\* absent or empty, and if text is absent or empty while output_text is not empty,
\* output_text is the text handed to the parse function and returned.
C16_EitherField ==
  \A k \in Invocations :
    (Ended(k) /\ inv[k].textRes # Undefined) =>
      /\ inv[k].error = EmptyText => NoUsableText(inv[k].textRes)
      /\ (~Usable(inv[k].textRes.text) /\ Usable(inv[k].textRes.output_text)) =>
           /\ inv[k].parseCalls = 1
           /\ inv[k].pc = "succeeded" => inv[k].result.text = inv[k].textRes.output_text.s


\* C17: on a cache hit (baml_client exists already when buildAndLoadBamlClient looks)
\* the pipeline goes straight to loading: the compiler is not invoked and the source
\* file schema.baml is not written; the source is written only when baml_client is
\* absent.
C17_HitWritesNothing ==
  \A k \in Invocations :
    inv[k].sawClientDir => (inv[k].spawned = 0 /\ ~inv[k].wroteSource)


\* the invocations that have performed the load step in workspace w
LoadedIn(w) == { k \in Invocations : inv[k].workspace = w /\ inv[k].loads > 0 }

\* C18: the generated parser module of a workspace is loaded at most once per
\* workspace in the lifetime of a process: over the invocations that map to the same
\* cache key, the load step is performed at most once.
C18_LoadedOnce ==
  \A w \in Workspaces :
    /\ Cardinality(LoadedIn(w)) <= 1
    /\ \A k \in LoadedIn(w) : inv[k].loads = 1


HasPrefix(s, p) == Len(s) >= Len(p) /\ SubSeq(s, 1, Len(p)) = p

\* what a line of the rendered types declares: 1 an enum, 2 an alias, 3 a class,
\* 0 nothing (a value, a field, a closing brace)
DeclKind(line) ==
  IF HasPrefix(line, <<"e","n","u","m"," ">>) THEN 1
  ELSE IF HasPrefix(line, <<"t","y","p","e"," ">>) THEN 2
  ELSE IF HasPrefix(line, <<"c","l","a","s","s"," ">>) THEN 3
  ELSE 0

IsClassHeader(line) == DeclKind(line) = 3

\* the object has a field that is itself an object
HasNestedObject ==
  \E i \in DOMAIN rootSchema.shape :
    unwrapModifiers(rootSchema.shape[i].value).base.kind = "ZodObject"

\* C19: class declaration order is first-encounter order and is what the renderer
\* emits: for an object holding a nested object the outer class comes before the
\* nested class in the order list and in the rendered source, and the renderer
\* emits the enums, then the aliases, then the classes in the order of the list.
C19_FirstEncounterOrder ==
  (ObjectTranslated /\ HasNestedObject) =>
    LET lines == renderLines(ctx)
    IN  /\ ctx.order[1] = RootType
        /\ SelectSeq(lines, IsClassHeader)[1] = <<"c","l","a","s","s"," ">> \o RootType \o <<" ","{">>
        /\ SelectSeq(lines, IsClassHeader) =
             [i \in DOMAIN ctx.order |-> <<"c","l","a","s","s"," ">> \o ctx.order[i] \o <<" ","{">>]
        /\ \A i, j \in DOMAIN lines :
             (i < j /\ DeclKind(lines[i]) > 0 /\ DeclKind(lines[j]) > 0) =>
               DeclKind(lines[i]) <= DeclKind(lines[j])


\* the errors of the resolution of the compiler, lines 20-85
ResolutionErrors == {UnableToResolve, NoPackageJson, NoBinField, NoCliEntry}

\* C20: on a cache miss the compiler is resolved through an ordered chain: the bin
\* entry of the manifest of the installed package; if that cannot be resolved,
\* baml-cli on the system path; if that fails, npx. A later alternative is tried
\* only when every earlier one is unavailable, and the invocation fails for
\* resolution reasons only when all three are unavailable.
C20_FallbackChain ==
  \A k \in Invocations :
    /\ inv[k].error \in ResolutionErrors =>
         (resolveCli(env) # NoError /\ ~env.onPath /\ ~env.npx)
    /\ inv[k].spawned > 0 => (resolveCli(env) = NoError \/ env.onPath \/ env.npx)


(***************************************************************************)
(* Properties of one invocation as a whole                                 *)
(***************************************************************************)
\* the number of generation calls of invocation k that threw
Threw(k) == Len(SelectSeq(inv[k].genLog, LAMBDA o : o = "threw"))

\* at most 3 calls, none after a call that returned, 250 ms waited after the first
\* failure, 500 ms after the second, nothing after the third, and an invocation
\* that has ended has either a result or an error
RetryProtocol(k) ==
  /\ Len(inv[k].genLog) <= 3
  /\ \A m \in 1..(Len(inv[k].genLog) - 1) : inv[k].genLog[m] = "threw"
  /\ Threw(k) = 0 => inv[k].delays = <<>>
  /\ Threw(k) = 1 => inv[k].delays = <<250>>
  /\ Threw(k) \in {2, 3} => inv[k].delays = <<250, 500>>
  /\ Threw(k) = 3 => inv[k].pc = "failed"
  /\ inv[k].pc = "sleeping" => Len(inv[k].delays) = Threw(k)
  /\ inv[k].pc = "succeeded" => (inv[k].result # Undefined /\ inv[k].error = NoError)
  /\ inv[k].pc = "failed" => (inv[k].result = Undefined /\ inv[k].error # NoError)

\* C21: for every sequence of outcomes of the generation collaborator an invocation
\* calls it at most 3 times, stops calling it after the first call that returns,
\* waits 250 ms after the first failure and 500 ms after the second, nothing after
\* the third, and, every call returning or throwing, ends as succeeded or as failed.
C21_RetryTerminates ==
  \A k \in Invocations :
    /\ [](RetryProtocol(k))
    /\ inv[k].pc # "idle" ~> Ended(k)

\* three failures, two delays, and the invocation has failed
C21_Witness ==
  \E k \in Invocations :
    /\ inv[k].genLog = <<"threw", "threw", "threw">>
    /\ inv[k].delays = <<250, 500>>
    /\ inv[k].pc = "failed"


(***************************************************************************)
(* The calls of toBamlType, one at a time. A schema is a graph of nodes:   *)
(* a node built from other nodes holds nodes built before it, the getter   *)
(* of a lazy node may return any node, itself and its parents included.    *)
(* Node 1 is the schema handed to buildBamlFromZod.                        *)
(***************************************************************************)
NodeIds == {1, 2, 3}

\* the nodes that node i of a graph may be
NodesAt(i) ==
  LET later == {j \in NodeIds : j > i}
  IN  { [kind |-> "ZodString", kids |-> <<>>], [kind |-> "ZodDate", kids |-> <<>>],
        [kind |-> "ZodObject", kids |-> <<>>] }
      \cup { [kind |-> "ZodLazy", kids |-> <<j>>] : j \in NodeIds }
      \cup { [kind |-> k, kids |-> <<j>>] : k \in {"ZodArray", "ZodOptional"}, j \in later }
      \cup { [kind |-> "ZodObject", kids |-> <<j>>] : j \in later }
      \cup { [kind |-> "ZodObject", kids |-> <<j, k>>] : j \in later, k \in later }

SchemaGraphs == { g \in [NodeIds -> UNION { NodesAt(i) : i \in NodeIds }] :
                    \A i \in NodeIds : g[i] \in NodesAt(i) }

\* the calls the JavaScript engine's stack holds before it throws a RangeError
MaxDepth == 6

\* unwrapAll on a node of the graph: at most 50 wrappers are peeled
RECURSIVE peel(_, _, _)
peel(g, id, n) ==
  IF n = 0 \/ g[id].kind \notin WrapperKinds THEN id
  ELSE peel(g, g[id].kids[1], n - 1)

baseOf(g, id) == peel(g, id, UnwrapBudget)

\* toBamlType(schema, ctx, hintName), line 97: the call works on the unwrapped node
Frame(g, id) == [node |-> baseOf(g, id), next |-> 1]

OnStack(w, id) == \E i \in DOMAIN w.stack : w.stack[i].node = id

Top(w) == w.stack[Len(w.stack)]
TopNode(w) == w.graph[Top(w).node]

InitWalk ==
  /\ \E g \in SchemaGraphs :
       walk = [graph |-> g, stack |-> <<Frame(g, 1)>>, status |-> "running",
               reentered |-> FALSE, calls |-> 1]
  /\ rootSchema = Undefined /\ ctx = NewCtx /\ built = <<>>
  /\ MergeParked
  /\ PipelineParked

\* a variant that detects the cycle: a call on a node that is being translated throws
CallDetectsCycle ==
  /\ walk.status = "running"
  /\ Top(walk).next <= Len(TopNode(walk).kids)
  /\ Len(walk.stack) < MaxDepth
  /\ LET f == Frame(walk.graph, TopNode(walk).kids[Top(walk).next])
     IN  IF OnStack(walk, f.node)
           THEN walk' = [walk EXCEPT !.status = "threw", !.reentered = TRUE]
         ELSE walk' = [walk EXCEPT !.stack = Append(@, f), !.calls = @ + 1]
  /\ UNCHANGED <<rootSchema, ctx, built, mvars, pvars>>

\* the call in progress calls toBamlType on its next child: a field of an object
\* (line 111), the element of an array (165), what the getter of a lazy returns
\* (230), the inner node of a kind it has no case for (239)
Call ==
  /\ walk.status = "running"
  /\ Top(walk).next <= Len(TopNode(walk).kids)
  /\ Len(walk.stack) < MaxDepth
  /\ LET f == Frame(walk.graph, TopNode(walk).kids[Top(walk).next])
     IN  walk' = [walk EXCEPT !.stack = Append(@, f), !.calls = @ + 1,
                              !.reentered = @ \/ OnStack(walk, f.node)]
  /\ UNCHANGED <<rootSchema, ctx, built, mvars, pvars>>

\* the same call when the engine's stack is full: RangeError, Maximum call stack
\* size exceeded
Overflow ==
  /\ walk.status = "running"
  /\ Top(walk).next <= Len(TopNode(walk).kids)
  /\ Len(walk.stack) = MaxDepth
  /\ walk' = [walk EXCEPT !.status = "overflow"]
  /\ UNCHANGED <<rootSchema, ctx, built, mvars, pvars>>

\* line 242: a kind with no case and no inner node
Unsupported(node) == node.kind = "ZodDate"

\* the call in progress has translated its children and returns its type expression
Return ==
  /\ walk.status = "running"
  /\ Top(walk).next > Len(TopNode(walk).kids)
  /\ ~Unsupported(TopNode(walk))
  /\ LET n == Len(walk.stack)
     IN  IF n = 1
           THEN walk' = [walk EXCEPT !.stack = <<>>, !.status = "returned"]
         ELSE walk' = [walk EXCEPT !.stack =
                         [SubSeq(@, 1, n - 1) EXCEPT ![n - 1].next = @ + 1]]
  /\ UNCHANGED <<rootSchema, ctx, built, mvars, pvars>>

\* line 242: throw new Error(`Unsupported Zod type: ${k}`), which nothing catches
Throw ==
  /\ walk.status = "running"
  /\ Unsupported(TopNode(walk))
  /\ walk' = [walk EXCEPT !.status = "threw"]
  /\ UNCHANGED <<rootSchema, ctx, built, mvars, pvars>>

NextWalk == Call \/ Overflow \/ Return \/ Throw

\* the engine goes on running the call in progress
SpecWalk == InitWalk /\ [][NextWalk]_vars /\ WF_vars(NextWalk)

\* C22: toBamlType ends with a type expression or an error for every finite schema
\* in which no getter of a lazy node leads back to a node under translation; once a
\* getter has led back to such a node, nothing detects it: the translation expands
\* the node again and again, as deep as the stack goes, and reaches neither a type
\* expression nor an error of the translator.
C22_LazyCycles ==
  /\ <>(walk.status \in {"returned", "threw"} \/ walk.reentered)
  /\ [](walk.reentered => walk.status \notin {"returned", "threw"})
  /\ [](walk.status = "overflow" => walk.reentered)
  /\ walk.reentered ~> (walk.status = "overflow" /\ Len(walk.stack) = MaxDepth)

\* an object whose field is a lazy node that gives the object back, expanded until
\* the stack is full
C22_Witness ==
  /\ walk.graph[1] = [kind |-> "ZodObject", kids |-> <<2>>]
  /\ walk.graph[2] = [kind |-> "ZodLazy", kids |-> <<1>>]
  /\ walk.reentered
  /\ walk.status = "overflow"


(***************************************************************************)
(* execFile: the child's stdout and stderr are forwarded, stderr line by   *)
(* line without the lines of npm's 404 noise                               *)
(***************************************************************************)
\* String.prototype.toLowerCase on one character
toLowerCase(c) ==
  IF IsUpper(c) THEN LowerChars[CHOOSE i \in DOMAIN UpperChars : UpperChars[i] = c]
  ELSE c

\* the source of NOISY_NPM_404, /\/@boundaryml%2fbaml-/i
sNoisyPattern ==
  <<"/","@","b","o","u","n","d","a","r","y","m","l","%","2","f","b","a","m","l","-">>

\* NOISY_NPM_404.test(line): the pattern occurs in the line, whatever the case
NOISY_NPM_404(line) ==
  LET low == [i \in DOMAIN line |-> toLowerCase(line[i])]
      n == Len(sNoisyPattern)
  IN  \E i \in 1..(Len(line) - n + 1) : SubSeq(low, i, i + n - 1) = sNoisyPattern

\* s.split(/\r?\n/): the pieces between the line feeds, a carriage return in front
\* of a line feed belonging to the separator
splitLines(s) ==
  LET nl == SelectSeq([i \in DOMAIN s |-> i], LAMBDA i : s[i] = "\n")
      from(k) == IF k = 1 THEN 1 ELSE nl[k - 1] + 1
      upto(k) == IF k > Len(nl) THEN Len(s)
                 ELSE IF nl[k] > from(k) /\ s[nl[k] - 1] = "\r" THEN nl[k] - 2
                 ELSE nl[k] - 1
  IN  [k \in 1..(Len(nl) + 1) |-> SubSeq(s, from(k), upto(k))]

\* the lines of a list that are not noise, each followed by a line feed
forward(lines) ==
  flatten([i \in DOMAIN lines |->
             IF NOISY_NPM_404(lines[i]) THEN <<>> ELSE lines[i] \o <<"\n">>])

\* a variant of the stderr handler that keeps no partial line: every piece of the
\* chunk is tested and written as it comes
onStderrDataUnbuffered(p, chunk) ==
  LET lines == splitLines(chunk)
  IN  [p EXCEPT !.stderrBuf = <<>>, !.errOut = @ \o forward(lines)]

\* the handler of proc.stderr 'data', lines 17-27
onStderrData(p, chunk) ==
  LET lines == splitLines(p.stderrBuf \o chunk)
  IN  [p EXCEPT !.stderrBuf = lines[Len(lines)],
                !.errOut = @ \o forward(SubSeq(lines, 1, Len(lines) - 1))]

\* the handler of proc 'close', lines 28-32
onClose(p) ==
  IF p.stderrBuf # <<>> /\ ~NOISY_NPM_404(p.stderrBuf)
    THEN [p EXCEPT !.errOut = @ \o p.stderrBuf]
  ELSE p

\* what a compiler may write to stderr: lines that are empty, plain, or npm's 404
\* noise in either case, ended by LF or CRLF, the last one possibly not ended
sOk == <<"o","k">>
sNoise == <<"/","@","b","o","u","n","d","a","r","y","m","l","%","2","f","b","a","m","l","-","x">>
sNoiseUpper == <<"G","E","T"," ","/","@","B","o","u","n","d","a","r","y","M","L","%","2","F","b","a","m","l","-">>
LineTexts == {<<>>, sOk, sNoise, sNoiseUpper}
EndedLines == { [text |-> t, end |-> e] : t \in LineTexts, e \in {<<"\n">>, <<"\r","\n">>} }
OpenLines == { [text |-> t, end |-> <<>>] : t \in LineTexts \ {<<>>} }

MaxLines == 2

\* the outputs of up to n lines, only the last of which may lack its end
RECURSIVE EndedOutputs(_)
EndedOutputs(n) ==
  IF n = 0 THEN { <<>> }
  ELSE { <<>> } \cup { <<l>> \o ls : l \in EndedLines, ls \in EndedOutputs(n - 1) }

Outputs ==
  EndedOutputs(MaxLines)
  \cup { ls \o <<l>> : ls \in EndedOutputs(MaxLines - 1), l \in OpenLines }

TextOf(ls) == flatten([i \in DOMAIN ls |-> ls[i].text \o ls[i].end])

\* what the child writes to stdout, and the chunks it arrives in
StdoutChunks == << <<"/","@","b","o","u","n","d","a","r","y">>,
                   <<"m","l","%","2","f","b","a","m","l","-","\n">> >>

InitExec ==
  /\ \E ls \in Outputs :
       proc = [written |-> ls, stderrLeft |-> TextOf(ls), stdoutLeft |-> StdoutChunks,
               stderrBuf |-> <<>>, errOut |-> <<>>, stdOut |-> <<>>,
               cutNoise |-> FALSE, closed |-> FALSE]
  /\ hint = <<>> /\ messages = <<>> /\ merged = <<>> /\ RequestParked
  /\ TranslateParked
  /\ PipelineParked

\* lines 13-15: a chunk of stdout arrives and is written as it is
StdoutData ==
  /\ ~proc.closed
  /\ proc.stdoutLeft # <<>>
  /\ proc' = [proc EXCEPT !.stdoutLeft = Tail(@), !.stdOut = @ \o Head(proc.stdoutLeft)]
  /\ UNCHANGED <<hint, messages, merged, opts, request, tvars, pvars>>

\* lines 17-27: a chunk of stderr arrives, of any length
StderrData ==
  /\ ~proc.closed
  /\ \E n \in 1..Len(proc.stderrLeft) :
       LET chunk == SubSeq(proc.stderrLeft, 1, n)
           after == onStderrData(proc, chunk)
       IN  proc' = [after EXCEPT
                      !.stderrLeft = SubSeq(proc.stderrLeft, n + 1, Len(proc.stderrLeft)),
                      !.cutNoise = @ \/ (after.stderrBuf # <<>>
                                          /\ ~NOISY_NPM_404(after.stderrBuf)
                                          /\ NOISY_NPM_404(after.stderrBuf \o
                                               Head(splitLines(SubSeq(proc.stderrLeft, n + 1,
                                                                      Len(proc.stderrLeft))))))]
  /\ UNCHANGED <<hint, messages, merged, opts, request, tvars, pvars>>

\* lines 28-32: both streams have ended and the child is closed
Close ==
  /\ ~proc.closed
  /\ proc.stderrLeft = <<>>
  /\ proc.stdoutLeft = <<>>
  /\ proc' = [onClose(proc) EXCEPT !.closed = TRUE]
  /\ UNCHANGED <<hint, messages, merged, opts, request, tvars, pvars>>

NextExec == StdoutData \/ StderrData \/ Close

SpecExec == InitExec /\ [][NextExec]_vars

\* the text the claim has forwarded for the lines the child wrote: every line that
\* is not noise, ended lines with a line feed, and the last one as it is
NoiseTexts == {sNoise, sNoiseUpper}
Forwarded(ls) ==
  flatten([i \in DOMAIN ls |->
             IF ls[i].text \in NoiseTexts THEN <<>>
             ELSE IF ls[i].end = <<>> THEN ls[i].text
             ELSE ls[i].text \o <<"\n">>])

IsPrefixOf(a, b) == Len(a) <= Len(b) /\ SubSeq(b, 1, Len(a)) = a

\* C23: the compiler's stderr is filtered line by line whatever the chunks it
\* arrives in: what is forwarded is the lines that are not npm's 404 noise, in
\* their order, a noise line cut by chunk boundaries is left out all the same, and
\* an unended last line is forwarded once, at close, unless it is noise. stdout is
\* forwarded as it comes.
C23_ChunkingIndependent ==
  /\ IsPrefixOf(proc.errOut, Forwarded(proc.written))
  /\ proc.closed => proc.errOut = Forwarded(proc.written)
  /\ proc.stdOut \o flatten(proc.stdoutLeft) = flatten(StdoutChunks)

\* a noise line arrived in pieces none of which was noise by itself, among lines
\* that were forwarded
C23_Witness ==
  /\ proc.closed
  /\ proc.cutNoise
  /\ Len(proc.written) = 2
  /\ proc.errOut = sOk \o <<"\n">>


\* the line the claim gives an optional field whose type is a union: the union in
\* parentheses, then the marker
OptionalUnionLine(f) ==
  <<" ", " ">> \o f.name \o <<" ">> \o Parenthesized(f.type) \o <<"?">>

\* C24: for every object field that is optional and whose type expression is a
\* union (a nullable field, or a field whose schema is a union), the rendered line
\* puts the optional marker on the whole union: the union is parenthesized before
\* "?" is appended, and the marker never follows the last member alone, as in
\* "name T | null?".
C24_OptionalUnion ==
  ObjectTranslated =>
    \A i \in DOMAIN RootClass.fields :
      LET f == RootClass.fields[i]
      IN  (f.optional /\ includes(f.type, "|")) =>
            \E n \in DOMAIN renderLines(ctx) :
              HasPrefix(renderLines(ctx)[n], OptionalUnionLine(f))


\* a schema with its outermost Nullable taken off
NullableRemoved(s) == IF s.kind = "ZodNullable" THEN s.innerType ELSE s

\* a schema with the Nullable taken off its root, its array element, its union
\* options and its record value
WithoutNullable(s) ==
  LET r == NullableRemoved(s)
  IN  IF r.kind = "ZodArray" THEN [r EXCEPT !.element = NullableRemoved(@)]
      ELSE IF r.kind = "ZodUnion"
        THEN [r EXCEPT !.options = [i \in DOMAIN @ |-> NullableRemoved(@[i])]]
      ELSE IF r.kind = "ZodRecord" THEN [r EXCEPT !.valueType = NullableRemoved(@)]
      ELSE r

NullableOutsideField == WithoutNullable(rootSchema) # rootSchema

\* the text null occurs in a type expression
HasNullMember(expr) == \E i \in 1..(Len(expr) - 3) : SubSeq(expr, i, i + 3) = sNull

\* C25: nullability shows in the type expression only for object fields: a Nullable
\* at the root, on an array element, on a union option or on a record value leaves
\* the type expression exactly that of the schema without it, with no null member,
\* while a nullable object field has the null member in its type.
C25_NullableOnlyInFields ==
  /\ (Translated /\ NullableOutsideField) =>
       /\ RootType = buildBamlFromZod(WithoutNullable(rootSchema)).rootType
       /\ ~HasNullMember(RootType)
  /\ ObjectTranslated =>
       \A i \in DOMAIN RootClass.fields :
         LET f == RootClass.fields[i]
         IN  HasNullMember(f.type)
               <=> unwrapModifiers(PropGet(rootSchema.shape, f.name)).nullable

\* a nullable union was translated as the element of an array
C25_Witness ==
  /\ Translated
  /\ rootSchema = zArray(zNullable(zUnion(<<zString, zInt>>)))
  /\ RootType = Parenthesized(sString \o sUnionOp \o sInt) \o sArraySuffix


(***************************************************************************)
(* A client directory without an index file                                *)
(***************************************************************************)
\* baml_client exists in workspace w and holds no index file
EmptyClient(w) == fs[w].clientDir /\ fs[w].index = {}

\* a compiler is at work in workspace w
CompilerRunningIn(w) == \E i \in Invocations : Running(i) /\ inv[i].workspace = w

\* invocation k has not yet taken the compile-or-skip decision
BeforeDecision(k) == inv[k].pc \in {"idle", "prepare", "build"}

\* invocation k ended in workspace w with the client-not-found error, no compiler run
FailedForWantOfClient(k) == inv[k].error = ClientNotFound /\ inv[k].spawned = 0

\* C26 as claimed: once baml_client exists without an index file, be it while a
\* compiler is still at work in it, every invocation that decides later on the same
\* key ends with the client-not-found error and never runs the compiler.
C26_AsClaimed ==
  \A k \in Invocations :
    (inv[k].sawEmptyClient /\ Ended(k)) => FailedForWantOfClient(k)

\* baml_client exists in workspace w without an index file and no compiler is at
\* work there
Abandoned(w) == EmptyClient(w) /\ ~CompilerRunningIn(w)

\* C26: the compile-or-skip decision looks at the existence of baml_client alone:
\* an invocation that decides while baml_client exists goes to the load without
\* running the compiler, whatever the directory holds, and fails with the
\* client-not-found error if no index file is there when it loads. Once baml_client
\* exists without an index file and no compiler is at work in the workspace, it
\* stays so, and every invocation that decides later on the same key ends with the
\* client-not-found error and never runs the compiler.
C26_EmptyClientIsFinal ==
  /\ [][ \A k \in Invocations :
           (inv[k].pc = "build" /\ inv'[k].pc # "build") =>
             IF fs[inv[k].workspace].clientDir
               THEN inv'[k].pc = "load" /\ inv'[k].spawned = 0 /\ fs' = fs
             ELSE inv'[k].pc \in {"compiling", "failed"} ]_vars
  /\ [][ \A w \in Workspaces : Abandoned(w) => Abandoned(w)' ]_vars
  /\ \A w \in Workspaces : \A k \in Invocations :
       /\ []( (Abandoned(w) /\ BeforeDecision(k))
                => []((Ended(k) /\ inv[k].workspace = w) => FailedForWantOfClient(k)) )
       /\ []( (Ended(k) /\ inv[k].workspace = w /\ inv[k].sawClientDir /\ EmptyClient(w))
                => FailedForWantOfClient(k) )

\* a compiler made baml_client and failed before it wrote the index; the invocation
\* that came after it skipped the compiler and did not find a client
C26_Witness ==
  \E i, j \in Invocations :
    /\ i \in inv[j].prior
    /\ inv[i].workspace = inv[j].workspace
    /\ inv[i].outDirMade
    /\ inv[i].error = CompileError
    /\ EmptyClient(inv[j].workspace)
    /\ inv[j].sawClientDir
    /\ inv[j].pc = "failed"
    /\ FailedForWantOfClient(j)

====
